---- MODULE Spec2Model ----
(***************************************************************************)
(* A model of the election-polling pipeline of edoaltamura/election-       *)
(* predictions: DataEngineering.clean_data (src/src/data_engineering.py),  *)
(* DataScience.split_pollsters, regularise_time_series and                 *)
(* compute_polling_averages (src/src/data_science.py).                     *)
(*                                                                         *)
(* Tables are sequences of records (a DataFrame in row order, the row      *)
(* label being the position).  Text cells are sequences of one-character   *)
(* strings, numbers are exact fractions, timestamps are hours since        *)
(* 2000-01-01 00:00.                                                       *)
(***************************************************************************)
EXTENDS Integers, Sequences, FiniteSets, TLC

VARIABLES
    raw,          \* DataEngineering: the raw table (text cells), in file order
    data,         \* DataEngineering.data after clean_data / DataScience.data
    cleanStatus,  \* "pending", "ok", or the exception clean_data raised
    series,       \* the df argument of regularise_time_series
    fine,         \* the 12h sub-grid after .resample('12h').interpolate(...)
    regular,      \* the value regularise_time_series returns
    regStatus,    \* "pending", "ok" or [type |-> "ValueError", ...]
    datesInterp,  \* the build: does the library interpolate datetime columns
    manifest,     \* interim/<basename>_list.csv: "absent" or the pollster list
    partitions,   \* interim/<basename>_<pollster>.csv: pollster -> rows/absent
    written,      \* the partitions the last split_pollsters run wrote, in order
    splitArg,     \* the regularise argument of the last split_pollsters run
    splitStatus,  \* "pending", "ok" or the exception split_pollsters raised
    averages,     \* compute_polling_averages(...)['polling_averages']
    avgStatus,    \* "pending", "ok" or the exception it raised
    avgRead,      \* the manifest and partitions on disk when it was called
    candidates,   \* the candidates argument of that call
    filesRead,    \* the files that call read, in order
    avgMessage,   \* what the message of the exception it raised names
    warned,        \* the pollsters it emitted a RuntimeWarning for
    trends,      \* compute_polling_averages(...)['trends']
    final,       \* final/polling_averages.csv and final/trends.csv
    dumpStatus,   \* "pending", "ok" or the exception dump_results raised
    pathArgs,    \* two pollster names given to get_split_file_path
    paths,        \* the paths it returned for them, <<>> before the calls
    recleanStatus, \* outcome of a second clean_data() on the cleaned table
    badlyFormatted, \* per share column, the count of badly formatted rows print() reported
    csvIn,       \* a column handed to IO.to_csv
    csvFile,     \* the dtype line and the lines written for it
    csvOut,       \* the column IO.read_csv returns from the file
    rawFile,     \* raw/dataland_polling.csv: absent or the fetched table
    cleanFile,   \* interim/dataland_polling.csv: absent or the table saved
    deInit       \* the last DataEngineering(...) call: arguments, steps taken, outcome

vars == <<raw, data, cleanStatus, series, fine, regular, regStatus, datesInterp,
          manifest, partitions, written, splitArg, splitStatus, averages,
          avgStatus, avgRead,
          candidates, filesRead, avgMessage, warned,
          trends, final, dumpStatus,
          pathArgs, paths,
          recleanStatus,
          badlyFormatted,
          csvIn, csvFile, csvOut,
          rawFile, cleanFile, deInit>>

-----------------------------------------------------------------------------
(* Numbers: float cells, exact.  NaN is the missing value.                 *)

Abs(x) == IF x < 0 THEN -x ELSE x

RECURSIVE GCD(_, _)
GCD(a, b) == IF b = 0 THEN a ELSE GCD(b, a % b)

NaN == [k |-> "nan", n |-> 0, d |-> 1]
PosInf == [k |-> "inf", n |-> 1, d |-> 1]
NegInf == [k |-> "inf", n |-> -1, d |-> 1]

\* the fraction n/d (d # 0) in lowest terms with a positive denominator
Num(n, d) ==
    LET g == GCD(Abs(n), Abs(d))
        s == IF d < 0 THEN -1 ELSE 1
    IN  [k |-> "num", n |-> (s * n) \div g, d |-> (s * d) \div g]

IsNum(x) == x.k = "num"
IsNa(x) == x.k = "nan"

\* float arithmetic on cells; this model never meets an infinite operand
FAdd(x, y) == IF IsNum(x) /\ IsNum(y) THEN Num(x.n * y.d + y.n * x.d, x.d * y.d) ELSE NaN
FSub(x, y) == IF IsNum(x) /\ IsNum(y) THEN Num(x.n * y.d - y.n * x.d, x.d * y.d) ELSE NaN
FMul(x, y) == IF IsNum(x) /\ IsNum(y) THEN Num(x.n * y.n, x.d * y.d) ELSE NaN

\* a division that guards the zero divisor and yields 0 for it
FDivZeroGuarded(x, y) ==
    IF ~(IsNum(x) /\ IsNum(y)) THEN NaN
    ELSE IF y.n # 0 THEN Num(x.n * y.d, x.d * y.n)
    ELSE Num(0, 1)

\* float division of pandas/numpy: x/0 never raises, 0/0 is NaN, x/0 is +-inf
FDiv(x, y) ==
    IF ~(IsNum(x) /\ IsNum(y)) THEN NaN
    ELSE IF y.n # 0 THEN Num(x.n * y.d, x.d * y.n)
    ELSE IF x.n = 0 THEN NaN
    ELSE IF x.n > 0 THEN PosInf ELSE NegInf

FLeq(x, y) == x.n * y.d <= y.n * x.d

\* a table given row by row, as the sequence of its rows
Table(f) == f \o <<>>

-----------------------------------------------------------------------------
(* Text cells of the raw table.                                            *)

NaCell == <<"nan">>                 \* a missing (NaN) cell of an object column
Digits == <<"0", "1", "2", "3", "4", "5", "6", "7", "8", "9">>
IsDigit(c) == \E i \in 1..10 : Digits[i] = c
DigitVal(c) == (CHOOSE i \in 1..10 : Digits[i] = c) - 1

\* Series.str.contains(pat) for a literal pattern, on a non-missing cell
StrContains(s, pat) ==
    \E i \in 1..(Len(s) - Len(pat) + 1) : SubSeq(s, i, i + Len(pat) - 1) = pat

\* Series.str.replace(pat, '') for a literal pattern: every non-overlapping
\* occurrence, left to right
RECURSIVE StrRemove(_, _)
StrRemove(s, pat) ==
    IF Len(s) < Len(pat) THEN s
    ELSE IF SubSeq(s, 1, Len(pat)) = pat
         THEN StrRemove(SubSeq(s, Len(pat) + 1, Len(s)), pat)
         ELSE <<s[1]>> \o StrRemove(Tail(s), pat)

\* Series.str.rstrip(ch)
RECURSIVE StrRStrip(_, _)
StrRStrip(s, ch) ==
    IF s # <<>> /\ s[Len(s)] = ch THEN StrRStrip(SubSeq(s, 1, Len(s) - 1), ch) ELSE s

RECURSIVE DigitsToInt(_)
DigitsToInt(s) ==
    IF s = <<>> THEN 0 ELSE 10 * DigitsToInt(SubSeq(s, 1, Len(s) - 1)) + DigitVal(s[Len(s)])

\* does the text parse as a number (the cells of this model hold no sign,
\* point or blank)
IsNumeric(s) == s # <<>> /\ s # NaCell /\ \A i \in 1..Len(s) : IsDigit(s[i])

\* pd.to_numeric(..., errors='coerce'): unparseable text becomes NaN
ToNumericCoerce(s) == IF IsNumeric(s) THEN Num(DigitsToInt(s), 1) ELSE NaN

-----------------------------------------------------------------------------
(* Dates.  A raw Date cell is <<month, day, two-digit year>>.              *)

IsLeap(y) == (y % 4 = 0 /\ y % 100 # 0) \/ y % 400 = 0
MonthDays(m, y) ==
    IF m = 2 THEN (IF IsLeap(y) THEN 29 ELSE 28)
    ELSE IF m \in {4, 6, 9, 11} THEN 30 ELSE 31
LeapsBefore(y) == ((y - 1) \div 4) - ((y - 1) \div 100) + ((y - 1) \div 400)
RECURSIVE DaysBeforeMonth(_, _)
DaysBeforeMonth(m, y) == IF m = 1 THEN 0 ELSE DaysBeforeMonth(m - 1, y) + MonthDays(m - 1, y)

\* strptime's %y: 00..68 are 2000..2068, 69..99 are 1969..1999
FullYear(yy) == IF yy <= 68 THEN 2000 + yy ELSE 1900 + yy

DateValid(c) ==
    /\ c[1] \in 1..12
    /\ c[3] \in 0..99
    /\ c[2] \in 1..MonthDays(c[1], FullYear(c[3]))

\* pd.to_datetime(cell, format='%m/%d/%y') as hours since 2000-01-01 00:00
ParseDate(c) ==
    LET y == FullYear(c[3])
        days == 365 * (y - 2000) + LeapsBefore(y) - LeapsBefore(2000)
                + DaysBeforeMonth(c[1], y) + (c[2] - 1)
    IN  24 * days

NaT == -1000000                     \* a missing timestamp
NaS == "<NA>"                       \* a missing cell of a parsed object column

-----------------------------------------------------------------------------
(* DataEngineering.clean_data                                              *)

\* the candidate columns, in the order clean_data converts them
ShareColumns == <<"Bulstrode", "Lydgate", "Chettam", "Vincy", "Casaubon", "Others">>
Candidates == {ShareColumns[i] : i \in 1..Len(ShareColumns)}

\* the pollster names of the model, in ascending (string) order
PollsterNames == <<"A", "B">>
\* 'nan', the text str() makes of a missing name, sorts after both
PollsterRank(p) ==
    IF p = "nan" THEN Len(PollsterNames) + 1
    ELSE CHOOSE i \in 1..Len(PollsterNames) : PollsterNames[i] = p

\* Pollster.apply(str) (line 172)
PollsterText(p) == IF p = "<NA>" THEN "nan" ELSE p

\* Sample.str.contains('\*'): NaN on a missing cell
ExcludesOverseas(cell) ==
    IF cell = NaCell THEN NaS
    ELSE IF StrContains(cell, <<"*">>) THEN "True" ELSE "False"

\* Sample.str.replace('\*', '').str.replace(',', ''), then to_numeric(coerce)
ParseSample(cell) ==
    IF cell = NaCell THEN NaN
    ELSE ToNumericCoerce(StrRemove(StrRemove(cell, <<"*">>), <<",">>))

\* Chettam.str.contains('\*\*') followed by fillna(False)
AlternateQuestion(cell) == cell # NaCell /\ StrContains(cell, <<"*", "*">>)

\* mask = col.str.contains('%', na=False); a row is badly formatted when ~mask
HasPercent(cell) == cell # NaCell /\ StrContains(cell, <<"%">>)

\* .astype('float') raises ValueError on text that is no number
ShareRaises(col, cell) ==
    /\ col # "Chettam"
    /\ cell # NaCell
    /\ ~IsNumeric(StrRStrip(cell, "%"))

\* the converted cell: text without '**' (Chettam only) and trailing '%',
\* as a number, divided by 100.0
ParseShare(col, cell) ==
    IF cell = NaCell THEN NaN
    ELSE LET txt == IF col = "Chettam"
                    THEN StrRStrip(StrRemove(cell, <<"*", "*">>), "%")
                    ELSE StrRStrip(cell, "%")
             v == ToNumericCoerce(txt)
         IN  FDiv(v, Num(100, 1))

\* lines 143-172 on one row
ParseRow(r) ==
    [Date |-> ParseDate(r.Date),
     Pollster |-> PollsterText(r.Pollster),
     Sample |-> ParseSample(r.Sample),
     Excl |-> ExcludesOverseas(r.Sample),
     Alt |-> AlternateQuestion(r.share["Chettam"]),
     share |-> [c \in Candidates |-> ParseShare(c, r.share[c])]]

\* the number of rows print() reports as badly formatted in column col
BadlyFormatted(df, col) == Cardinality({i \in 1..Len(df) : ~HasPercent(df[i].share[col])})

\* the columns whose count is printed (lines 166-169): the loop of line 152
\* stops at the first column whose astype('float') raises
ReportedColumns(rawdf) ==
    {ShareColumns[k] : k \in
        {n \in 1..Len(ShareColumns) :
            \A j \in 1..n : \A i \in 1..Len(rawdf) :
                ~ShareRaises(ShareColumns[j], rawdf[i].share[ShareColumns[j]])}}
BadlyFormattedReport(rawdf) ==
    [c \in Candidates |->
        IF c \in ReportedColumns(rawdf) THEN BadlyFormatted(rawdf, c) ELSE 0]

DupKey(r) == <<r.Date, r.Pollster, r.Sample>>

\* DataFrame.duplicated(subset=duplication_criteria, keep='first') / keep='last'
DuplicatedKeepFirst(df, i) == \E j \in 1..(i - 1) : DupKey(df[j]) = DupKey(df[i])
DuplicatedKeepLast(df, i) == \E j \in (i + 1)..Len(df) : DupKey(df[j]) = DupKey(df[i])

\* the row labels a boolean mask selects, in table order
RECURSIVE LabelsWhere(_, _)
LabelsWhere(mask, i) ==
    IF i > Len(mask) THEN <<>>
    ELSE (IF mask[i] THEN <<i>> ELSE <<>>) \o LabelsWhere(mask, i + 1)

\* last = data[data.duplicated(keep='first')], first = data[data.duplicated(keep='last')]
LastLabels(df) == LabelsWhere(Table([i \in 1..Len(df) |-> DuplicatedKeepFirst(df, i)]), 1)
FirstLabels(df) == LabelsWhere(Table([i \in 1..Len(df) |-> DuplicatedKeepLast(df, i)]), 1)

\* assert last['Included in alternate question'].all()   (lines 182 and 185:
\* both assertions test `last`)
DoubleCountAssertion(df) ==
    \A k \in 1..Len(LastLabels(df)) : df[LastLabels(df)[k]].Alt

\* lines 186-189: `last` relabelled with first.index, its Chettam replaced by
\* that of the `first` row carrying the same label
MergedLast(df) ==
    LET last == LastLabels(df)
        first == FirstLabels(df)
    IN  Table([k \in 1..Len(last) |->
            [df[last[k]] EXCEPT !.share["Chettam"] = df[first[k]].share["Chettam"]]])

\* line 192: self.data.loc[last.index] = last  (last.index is first.index)
AssignMerged(df) ==
    LET first == FirstLabels(df)
        merged == MergedLast(df)
    IN  Table([i \in 1..Len(df) |->
            IF \E k \in 1..Len(first) : first[k] = i
            THEN merged[CHOOSE k \in 1..Len(first) : first[k] = i]
            ELSE df[i]])

\* a drop that also removes the rows without a Sample
RECURSIVE DropLabelsAndMissing(_, _, _)
DropLabelsAndMissing(df, i, labels) ==
    IF i > Len(df) THEN <<>>
    ELSE (IF (\E k \in 1..Len(labels) : labels[k] = i) \/ IsNa(df[i].Sample)
          THEN <<>> ELSE <<df[i]>>)
         \o DropLabelsAndMissing(df, i + 1, labels)

\* line 193: self.data.drop(index=first.index)
RECURSIVE DropLabels(_, _, _)
DropLabels(df, i, labels) ==
    IF i > Len(df) THEN <<>>
    ELSE (IF \E k \in 1..Len(labels) : labels[k] = i THEN <<>> ELSE <<df[i]>>)
         \o DropLabels(df, i + 1, labels)

\* lines 174-200
AccountForDoubleCounts(df) ==
    IF \E i \in 1..Len(df) : df[i].Alt
    THEN DropLabels(AssignMerged(df), 1, FirstLabels(df))
    ELSE df

\* line 203
DropAltColumn(r) ==
    [Date |-> r.Date, Pollster |-> r.Pollster, Sample |-> r.Sample,
     Excl |-> r.Excl, share |-> r.share]

\* sort_values(['Pollster', 'Date']) : a stable sort on the two keys
SortLeq(a, b) ==
    \/ PollsterRank(a.Pollster) < PollsterRank(b.Pollster)
    \/ a.Pollster = b.Pollster /\ a.Date <= b.Date

RECURSIVE InsertSorted(_, _)
InsertSorted(s, r) ==
    IF s = <<>> THEN <<r>>
    ELSE IF SortLeq(s[Len(s)], r) THEN Append(s, r)
    ELSE Append(InsertSorted(SubSeq(s, 1, Len(s) - 1), r), s[Len(s)])

\* the rows left in the order the duplicate resolution produced
RowsAsResolved(s) == s

RECURSIVE SortRows(_)
SortRows(s) ==
    IF s = <<>> THEN <<>>
    ELSE InsertSorted(SortRows(SubSeq(s, 1, Len(s) - 1)), s[Len(s)])

\* lines 143-172 on the table
ParseTable(rawdf) == Table([i \in 1..Len(rawdf) |-> ParseRow(rawdf[i])])

\* the exception clean_data raises on the table, or "ok"
\* a column without any text is a float64 column, which has no .str
\* accessor (lines 144 and 148)
CleanOutcome(rawdf) ==
    IF \A i \in 1..Len(rawdf) : rawdf[i].Sample = NaCell THEN "AttributeError"
    ELSE IF \A i \in 1..Len(rawdf) : rawdf[i].share["Chettam"] = NaCell
        THEN "AttributeError"
    ELSE IF \E i \in 1..Len(rawdf) : \E c \in Candidates : ShareRaises(c, rawdf[i].share[c])
        THEN "ValueError"
    ELSE IF \E i \in 1..Len(rawdf) : ~DateValid(rawdf[i].Date)
        THEN "ValueError"
    ELSE LET df == ParseTable(rawdf)
         IN  IF (\E i \in 1..Len(df) : df[i].Alt) /\ ~DoubleCountAssertion(df)
             THEN "AssertionError" ELSE "ok"

\* the exception clean_data raises when self.data already holds the cleaned
\* table df, or "ok": line 144 applies the .str accessor to the Sample
\* column, which line 146 made numeric; an empty self.data is read again
\* from the raw file (lines 140-141)
CleanAgainOutcome(rawdf, df) ==
    IF df = <<>> THEN CleanOutcome(rawdf) ELSE "AttributeError"

\* the table clean_data leaves in self.data when it completes
CleanData(rawdf) ==
    LET kept == AccountForDoubleCounts(ParseTable(rawdf))
    IN  SortRows(Table([i \in 1..Len(kept) |-> DropAltColumn(kept[i])]))

-----------------------------------------------------------------------------
(* DataScience.regularise_time_series                                      *)

SubGridHours == 12                  \* df.resample('12h')
ResampleEvery == 24                 \* resample_every = '24h'
InterpLimit == 14 * 4               \* interpolate(limit=14 * 4, ...)

NumericColumns == {"Sample"} \cup Candidates
Col(r, c) == IF c = "Sample" THEN r.Sample ELSE r.share[c]

\* df['Date'].is_unique
DatesUnique(df) == \A i, j \in 1..Len(df) : i # j => df[i].Date # df[j].Date

\* df[df.duplicated(subset=['Date'], keep='first')], the rows the message lists
DuplicateTimestamps(df) ==
    LET mask == [i \in 1..Len(df) |-> \E j \in 1..(i - 1) : df[j].Date = df[i].Date]
        lab == LabelsWhere(Table(mask), 1)
    IN  Table([k \in 1..Len(lab) |-> df[lab[k]]])

MinDate(df) == CHOOSE t \in {df[i].Date : i \in 1..Len(df)} :
                   \A i \in 1..Len(df) : t <= df[i].Date
MaxDate(df) == CHOOSE t \in {df[i].Date : i \in 1..Len(df)} :
                   \A i \in 1..Len(df) : t >= df[i].Date

\* the bin edge at or before t, bins being anchored on midnight
FloorTo(t, step) == t - (t % step)

\* the timestamps of resample(step) over [lo, hi]
GridSize(lo, hi, step) == ((FloorTo(hi, step) - FloorTo(lo, step)) \div step) + 1
GridTime(lo, step, k) == FloorTo(lo, step) + (k - 1) * step

\* the grid position of timestamp t on the sub-grid starting at lo
SubGridPos(t, lo) == ((t - FloorTo(lo, SubGridHours)) \div SubGridHours) + 1

\* the grid positions that hold a number in column c before interpolation
ValidAt(df, c) ==
    {SubGridPos(df[i].Date, MinDate(df)) :
        i \in {j \in 1..Len(df) : df[j].Date % SubGridHours = 0 /\ IsNum(Col(df[j], c))}}

\* the cell of column c that df holds at grid position p
ObservedAt(df, c, p) ==
    Col(df[CHOOSE i \in 1..Len(df) : df[i].Date = GridTime(MinDate(df), SubGridHours, p)], c)

SetMax(S) == CHOOSE x \in S : \A y \in S : y <= x
SetMin(S) == CHOOSE x \in S : \A y \in S : y >= x

\* limit=None: every missing point after a number is filled
CanFillUnlimited(k, valid, limit) == {p \in valid : p < k} # {}

\* limit_direction='forward', limit=limit: a missing point is filled when a
\* number precedes it by at most `limit` grid points
CanFill(k, valid, limit) ==
    /\ {p \in valid : p < k} # {}
    /\ k - SetMax({p \in valid : p < k}) <= limit

\* method='linear' on the evenly spaced grid: the point k between the numbers
\* vp at p and vq at q
Linear(k, p, vp, q, vq) == FAdd(vp, FMul(FSub(vq, vp), Num(k - p, q - p)))

\* interpolate(method='linear', limit=limit, limit_direction='forward') at grid
\* position k of column c: a fillable point lies on the line to the next
\* number, or takes the last number when no number follows
InterpolateAt(df, c, k, limit) ==
    LET valid == ValidAt(df, c)
        after == {q \in valid : q > k}
    IN  IF k \in valid THEN ObservedAt(df, c, k)
        ELSE IF ~CanFill(k, valid, limit) THEN NaN
        ELSE LET p == SetMax({x \in valid : x < k})
             IN  IF after = {} THEN ObservedAt(df, c, p)
                 ELSE Linear(k, p, ObservedAt(df, c, p),
                             SetMin(after), ObservedAt(df, c, SetMin(after)))

\* the Date column of the sub-grid: the observation's own Date on its row; on
\* an inserted row NaT, unless the build interpolates datetime columns, which
\* then gives the fillable points their place on the line between the dates
SubGridDate(df, k, interp) ==
    LET valid == {SubGridPos(df[i].Date, MinDate(df)) :
                     i \in {j \in 1..Len(df) : df[j].Date % SubGridHours = 0}}
        TimeAt(p) == GridTime(MinDate(df), SubGridHours, p)
    IN  IF k \in valid THEN TimeAt(k)
        ELSE IF interp /\ CanFill(k, valid, InterpLimit)
        THEN LET p == SetMax({x \in valid : x < k})
                 q == SetMin({x \in valid : x > k})
             IN  TimeAt(p) + (((TimeAt(q) - TimeAt(p)) * (k - p)) \div (q - p))
        ELSE NaT

\* one row of df.resample('12h').interpolate(limit=14 * 4,
\* limit_direction='forward'): the row at the k-th 12h grid point
SubGridRow(df, k, interp) ==
    LET t == GridTime(MinDate(df), SubGridHours, k)
        here == \E i \in 1..Len(df) : df[i].Date = t
        obs == df[CHOOSE i \in 1..Len(df) : df[i].Date = t]
    IN  [ts |-> t,
         Date |-> SubGridDate(df, k, interp),
         Pollster |-> IF here THEN obs.Pollster ELSE NaS,
         Excl |-> IF here THEN obs.Excl ELSE NaS,
         Sample |-> InterpolateAt(df, "Sample", k, InterpLimit),
         share |-> [c \in Candidates |-> InterpolateAt(df, c, k, InterpLimit)]]

\* the sub-grid: one row per 12h grid point from the first to the last
\* observation
SubGrid(df, interp) ==
    Table([k \in 1..GridSize(MinDate(df), MaxDate(df), SubGridHours) |->
              SubGridRow(df, k, interp)])

MissingRow(t) ==
    [ts |-> t, Date |-> NaT, Pollster |-> NaS, Excl |-> NaS, Sample |-> NaN,
     share |-> [c \in Candidates |-> NaN]]

\* a resampling whose first bin is left out
AsFreqAfterFirst(sub, every) ==
    LET lo == sub[1].ts
        n == GridSize(lo, sub[Len(sub)].ts, every)
    IN  Table([k \in 2..n |-> MissingRow(GridTime(lo, every, k))])

\* .resample(resample_every).asfreq(): the sub-grid row at each point of the
\* target grid, an all-missing row where the sub-grid has none
AsFreq(sub, every) ==
    LET lo == sub[1].ts
        n == GridSize(lo, sub[Len(sub)].ts, every)
    IN  Table([k \in 1..n |->
          LET t == GridTime(lo, every, k)
              j == ((t - lo) \div SubGridHours) + 1
          IN  IF t >= lo /\ (t - lo) % SubGridHours = 0 /\ j <= Len(sub)
              THEN sub[j] ELSE MissingRow(t)])

\* line 191: _resampled_data.loc[:, [...]].fillna(method='ffill', inplace=True)
\* fills the frame that .loc[:, [...]] returns, a copy; this is what that copy
\* holds.  _resampled_data itself is returned as it was.
RECURSIVE ForwardFilledCopy(_)
ForwardFilledCopy(rows) ==
    IF Len(rows) <= 1 THEN rows
    ELSE LET head == ForwardFilledCopy(SubSeq(rows, 1, Len(rows) - 1))
             prev == head[Len(head)]
             r == rows[Len(rows)]
         IN  Append(head, [r EXCEPT
                 !.Pollster = IF r.Pollster = NaS THEN prev.Pollster ELSE r.Pollster,
                 !.Excl = IF r.Excl = NaS THEN prev.Excl ELSE r.Excl])

\* regularise_time_series without the uniqueness test of lines 177-181
RegulariseOutcomeUnchecked(df) == [type |-> "ok", dups |-> <<>>]

\* the exception regularise_time_series raises on df, or "ok"
RegulariseOutcome(df) ==
    IF DatesUnique(df) THEN [type |-> "ok", dups |-> <<>>]
    ELSE [type |-> "ValueError", dups |-> DuplicateTimestamps(df)]

\* the frame regularise_time_series returns when it raises nothing
RegulariseTimeSeries(df, every, interp) == AsFreq(SubGrid(df, interp), every)

-----------------------------------------------------------------------------
(* IO.to_csv / IO.read_csv, the partition files and the manifest           *)

PollsterSet == {PollsterNames[i] : i \in 1..Len(PollsterNames)}

\* str.split(): the words between runs of whitespace
IsSpace(ch) == ch = " "
RECURSIVE SplitFrom(_, _, _)
SplitFrom(s, i, word) ==
    LET done == IF word = <<>> THEN <<>> ELSE <<word>>
    IN  IF i > Len(s) THEN done
        ELSE IF IsSpace(s[i]) THEN done \o SplitFrom(s, i + 1, <<>>)
        ELSE SplitFrom(s, i + 1, Append(word, s[i]))
StrSplit(s) == SplitFrom(s, 1, <<>>)

\* sep.join(words)
RECURSIVE StrJoin(_, _)
StrJoin(sep, words) ==
    IF words = <<>> THEN <<>>
    ELSE IF Len(words) = 1 THEN words[1]
    ELSE words[1] \o <<sep>> \o StrJoin(sep, Tail(words))

\* get_split_file_path(pollster_name): the path as a sequence of characters
\* after the directory and '<split_basename>_'
SplitBasename == "pollster_split"
GetSplitFilePath(basename, name) ==
    <<"interim/", basename, "_">> \o StrJoin("-", StrSplit(name)) \o <<".csv">>

-----------------------------------------------------------------------------
(* IO.to_csv and IO.read_csv: a column with its dtype, cell by cell.       *)

\* the values a cell can hold: a float (NaN is the missing value of every
\* column but a datetime one), an int, a bool, a str, a Timestamp (NaT)
FloatCell(v) == [kind |-> "float", num |-> v, txt |-> <<>>]
IntCell(n) == [kind |-> "int", num |-> Num(n, 1), txt |-> <<>>]
BoolCell(b) == [kind |-> "bool", num |-> Num(IF b THEN 1 ELSE 0, 1), txt |-> <<>>]
StrCell(s) == [kind |-> "str", num |-> Num(0, 1), txt |-> s]
TsCell(t) == [kind |-> "ts", num |-> Num(t, 1), txt |-> <<>>]
MissingCell == FloatCell(NaN)
NaTCell == [kind |-> "ts", num |-> NaN, txt |-> <<>>]
IsMissing(c) == IsNa(c.num)

RECURSIVE IntToDigits(_)
IntToDigits(n) ==
    IF n < 10 THEN <<Digits[n + 1]>>
    ELSE Append(IntToDigits(n \div 10), Digits[(n % 10) + 1])

RECURSIVE Pow10(_)
Pow10(j) == IF j = 0 THEN 1 ELSE 10 * Pow10(j - 1)

RECURSIVE ZeroPad(_, _)
ZeroPad(s, width) == IF Len(s) >= width THEN s ELSE ZeroPad(<<"0">> \o s, width)

\* repr(float) of a non-negative decimal fraction: '0.4', '1.0', '0.25'
RECURSIVE DecimalPlaces(_, _)
DecimalPlaces(v, j) == IF (v.n * Pow10(j)) % v.d = 0 THEN j ELSE DecimalPlaces(v, j + 1)
FormatFloat(v) ==
    LET j == DecimalPlaces(v, 0)
        ds == ZeroPad(IntToDigits((v.n * Pow10(j)) \div v.d), j + 1)
    IN  IF j = 0 THEN ds \o <<".", "0">>
        ELSE SubSeq(ds, 1, Len(ds) - j) \o <<".">> \o SubSeq(ds, Len(ds) - j + 1, Len(ds))

\* the float the parser reads from '<digits>.<digits>' or '<digits>'
ParseFloat(txt) ==
    LET dots == {i \in 1..Len(txt) : txt[i] = "."}
        p == IF dots = {} THEN Len(txt) + 1 ELSE CHOOSE i \in dots : TRUE
        frac == SubSeq(txt, p + 1, Len(txt))
    IN  Num(DigitsToInt(SubSeq(txt, 1, p - 1) \o frac), Pow10(Len(frac)))

\* str(Timestamp): 'YYYY-MM-DD HH:MM:SS' for a whole hour since 2000-01-01
DaysInYear(y) == IF IsLeap(y) THEN 366 ELSE 365
RECURSIVE YearFrom(_, _)
YearFrom(y, days) ==
    IF days < DaysInYear(y) THEN <<y, days>> ELSE YearFrom(y + 1, days - DaysInYear(y))
RECURSIVE MonthFrom(_, _, _)
MonthFrom(m, y, days) ==
    IF days < MonthDays(m, y) THEN <<m, days + 1>>
    ELSE MonthFrom(m + 1, y, days - MonthDays(m, y))
FormatTimestamp(t) ==
    LET yd == YearFrom(2000, t \div 24)
        md == MonthFrom(1, yd[1], yd[2])
    IN  ZeroPad(IntToDigits(yd[1]), 4) \o <<"-">> \o ZeroPad(IntToDigits(md[1]), 2)
        \o <<"-">> \o ZeroPad(IntToDigits(md[2]), 2) \o <<" ">>
        \o ZeroPad(IntToDigits(t % 24), 2) \o <<":", "0", "0", ":", "0", "0">>

\* parse_dates on that text
ParseTimestamp(txt) ==
    ParseDate(<<DigitsToInt(SubSeq(txt, 6, 7)), DigitsToInt(SubSeq(txt, 9, 10)),
                DigitsToInt(SubSeq(txt, 3, 4))>>)
    + DigitsToInt(SubSeq(txt, 12, 13))

\* what DataFrame.to_csv writes for a cell of the concatenated frame, whose
\* columns are all object columns: '' for a missing cell, str(value) otherwise
FormatCell(c) ==
    IF IsMissing(c) THEN <<>>
    ELSE IF c.kind = "float" THEN FormatFloat(c.num)
    ELSE IF c.kind = "int" THEN IntToDigits(c.num.n)
    ELSE IF c.kind = "bool"
         THEN (IF c.num.n = 1 THEN <<"T", "r", "u", "e">> ELSE <<"F", "a", "l", "s", "e">>)
    ELSE IF c.kind = "ts" THEN FormatTimestamp(c.num.n)
    ELSE c.txt

\* text that pd.read_csv takes for a missing value (of its default list, the
\* entries the cells of this model can spell)
NaTexts == {<<>>, <<"n", "a", "n">>, <<"N", "A">>}

DatetimeDtype == "datetime64[ns]"

\* the cell pd.read_csv(path, parse_dates=..., dtype=...) returns for a text:
\* a column whose dtype line holds 'datetime64[ns]' is read as object and
\* parsed as dates (lines 126-131), any other with the dtype of its line
ReadCell(dtype, txt) ==
    IF dtype = DatetimeDtype
        THEN (IF txt \in NaTexts THEN NaTCell ELSE TsCell(ParseTimestamp(txt)))
    ELSE IF dtype = "float64"
        THEN (IF txt \in NaTexts THEN MissingCell ELSE FloatCell(ParseFloat(txt)))
    ELSE IF dtype = "int64" THEN IntCell(DigitsToInt(txt))
    ELSE IF dtype = "bool" THEN BoolCell(txt = <<"T", "r", "u", "e">>)
    ELSE IF txt \in NaTexts THEN MissingCell ELSE StrCell(txt)

\* IO.to_csv on one column: the dtype line, then a line per cell
ColumnToCsv(col) ==
    [dtype |-> col.dtype,
     lines |-> Table([i \in 1..Len(col.cells) |-> FormatCell(col.cells[i])])]

\* IO.read_csv on one column
ColumnReadCsv(file) ==
    [dtype |-> file.dtype,
     cells |-> Table([i \in 1..Len(file.lines) |-> ReadCell(file.dtype, file.lines[i])])]

\* the two object columns of a partition as cells, and back: a str that
\* spells a bool is written 'True' (with the quotes) to tell it from the bool
ExclCell(x) ==
    IF x = NaS THEN MissingCell
    ELSE IF x \in {"True", "False"} THEN BoolCell(x = "True")
    ELSE IF x = "'True'" THEN StrCell(<<"T", "r", "u", "e">>)
    ELSE StrCell(<<"F", "a", "l", "s", "e">>)
ExclValue(c) ==
    IF IsMissing(c) THEN NaS
    ELSE IF c.kind = "bool" THEN (IF c.num.n = 1 THEN "True" ELSE "False")
    ELSE IF c.txt = <<"T", "r", "u", "e">> THEN "'True'" ELSE "'False'"
PollsterCell(p) ==
    IF p = NaS THEN MissingCell
    ELSE IF p = "nan" THEN StrCell(<<"n", "a", "n">>) ELSE StrCell(<<p>>)
PollsterValue(c) == IF IsMissing(c) THEN NaS ELSE c.txt[1]

\* the dtype of 'Excludes overseas candidates': bool as str.contains made
\* it, object once a cell is missing
ExclDtype(df) ==
    IF \A i \in 1..Len(df) : df[i].Excl \in {"True", "False"} THEN "bool" ELSE "object"

AbsentFile == [present |-> FALSE, exclDtype |-> "object", rows |-> <<>>]

\* IO.to_csv(df, path): _df.to_csv(path, index=False) writes the columns and
\* drops the index, so a sub-grid row keeps its Date column but not its
\* grid timestamp; Pollster and the flag are kept as the text written, the
\* Date and the float columns as the value their text spells
ColumnsOf(r) ==
    [Date |-> r.Date, Pollster |-> FormatCell(PollsterCell(r.Pollster)),
     Sample |-> r.Sample, Excl |-> FormatCell(ExclCell(r.Excl)), share |-> r.share]
ToCsv(df) ==
    [present |-> TRUE, exclDtype |-> ExclDtype(df),
     rows |-> Table([i \in 1..Len(df) |-> ColumnsOf(df[i])])]

\* IO.read_csv(path): the columns with the dtypes of the second line
ReadCsv(file) ==
    Table([i \in 1..Len(file.rows) |->
        [file.rows[i] EXCEPT
            !.Pollster = PollsterValue(ReadCell("object", @)),
            !.Excl = ExclValue(ReadCell(file.exclDtype, @))]])

-----------------------------------------------------------------------------
(* DataEngineering.__init__, load_from_url, load_from_file, save_clean_data *)

\* a table whose rows clean_data has converted (they carry the flag column)
IsCleaned(df) == \A i \in 1..Len(df) : "Excl" \in DOMAIN df[i]

\* load_from_url: the fetched table written to the raw file (line 90)
RawCsv(table) == [present |-> TRUE, exclDtype |-> "object", rows |-> table]

\* save_clean_data: self.to_csv(self.data, self.clean_data_file); a table
\* still as fetched has only text columns, written as they are
SaveCleanData(df) == IF IsCleaned(df) THEN ToCsv(df) ELSE RawCsv(df)

\* load_from_file: self.read_csv(self.clean_data_file)
LoadFromFile(file) == IF IsCleaned(file.rows) THEN ReadCsv(file) ELSE file.rows

\* line 66: not os.path.isfile(self.raw_data_file) or reset
FetchNeeded(file, reset) == ~file.present \/ reset

\* line 75: not os.path.isfile(self.clean_data_file) or reset
CleanNeeded(file, reset) == ~file.present \/ reset

\* DataEngineering(reset=reset) over the two files, the fetch returning
\* table: the steps taken, the exception raised (or "ok"), self.data and the
\* two files afterwards
EngineeringInit(rawf, cleanf, reset, table) ==
    LET fetch == FetchNeeded(rawf, reset)
        raw1 == IF fetch THEN RawCsv(table) ELSE rawf
        loaded == ~fetch /\ cleanf.present
        df1 == IF fetch THEN table ELSE IF loaded THEN LoadFromFile(cleanf) ELSE <<>>
        clean == CleanNeeded(cleanf, reset)
        outcome == IF ~fetch /\ ~cleanf.present THEN "FileNotFoundError"
                   ELSE IF clean THEN CleanOutcome(df1) ELSE "ok"
        df2 == IF clean /\ outcome = "ok" THEN CleanData(df1) ELSE df1
    IN  [fetched |-> fetch, cleaned |-> clean /\ outcome # "FileNotFoundError",
         status |-> outcome, data |-> df2, rawFile |-> raw1,
         cleanFile |-> IF outcome = "ok" THEN SaveCleanData(df2) ELSE cleanf]

-----------------------------------------------------------------------------
(* DataScience.split_pollsters                                             *)

\* the Pollster column as it stands, repeats included
RECURSIVE PollsterColumn(_)
PollsterColumn(df) ==
    IF df = <<>> THEN <<>>
    ELSE Append(PollsterColumn(SubSeq(df, 1, Len(df) - 1)), df[Len(df)].Pollster)

\* self.data['Pollster'].unique(): the distinct values in order of appearance
RECURSIVE UniquePollsters(_)
UniquePollsters(df) ==
    IF df = <<>> THEN <<>>
    ELSE LET head == UniquePollsters(SubSeq(df, 1, Len(df) - 1))
             p == df[Len(df)].Pollster
         IN  IF \E i \in 1..Len(head) : head[i] = p THEN head ELSE Append(head, p)

\* self.data.loc[self.data['Pollster'] == pollster]
RECURSIVE PollsterSplit(_, _)
PollsterSplit(df, p) ==
    IF df = <<>> THEN <<>>
    ELSE PollsterSplit(SubSeq(df, 1, Len(df) - 1), p)
         \o (IF df[Len(df)].Pollster = p THEN <<df[Len(df)]>> ELSE <<>>)

OkStatus == [type |-> "ok", dups |-> <<>>]
PendingStatus == [type |-> "pending", dups |-> <<>>]

\* lines 131-143: the loop from the i-th pollster on, over the files st.files;
\* an exception of regularise_time_series leaves the loop at that pollster
RECURSIVE SplitLoop(_, _, _, _, _, _)
SplitLoop(df, names, i, regularise, interp, st) ==
    IF i > Len(names) THEN st
    ELSE LET p == names[i]
             split == PollsterSplit(df, p)
             outcome == IF regularise THEN RegulariseOutcome(split) ELSE OkStatus
         IN  IF outcome.type # "ok"
             THEN [st EXCEPT !.status = outcome]
             ELSE LET out == IF regularise
                             THEN RegulariseTimeSeries(split, ResampleEvery, interp)
                             ELSE split
                  IN  SplitLoop(df, names, i + 1, regularise, interp,
                          [st EXCEPT !.files[p] = ToCsv(out),
                                     !.written = Append(st.written, p)])

\* split_pollsters: the manifest is written first, then the partitions
SplitPollsters(df, regularise, interp, files) ==
    LET names == UniquePollsters(df)
    IN  [manifest |-> [present |-> TRUE, names |-> names]]
        @@ SplitLoop(df, names, 1, regularise, interp,
                     [files |-> files, written |-> <<>>, status |-> OkStatus])

-----------------------------------------------------------------------------
(* DataScience.compute_polling_averages                                    *)

\* _candidates_all
CandidatesAll == <<"Bulstrode", "Lydgate", "Vincy", "Casaubon", "Chettam", "Others">>

\* One row of _df: the index value and, per pollster joined so far, its
\* Sample_{pollster} and {candidate}_{pollster} cells.
MissingPair == [Sample |-> NaN, share |-> NaN]

\* load_pollster_from_file(p), set_index('Date'), .loc[:, ['Sample', candidate]]
PollsterFrame(file, c) ==
    LET rows == ReadCsv(file)
    IN  Table([i \in 1..Len(rows) |->
            [Date |-> rows[i].Date,
             pair |-> [Sample |-> rows[i].Sample, share |-> rows[i].share[c]]]])

\* the rows of a frame carrying the index value d, in frame order
RECURSIVE RowsAt(_, _)
RowsAt(frame, d) ==
    IF frame = <<>> THEN <<>>
    ELSE RowsAt(SubSeq(frame, 1, Len(frame) - 1), d)
         \o (IF frame[Len(frame)].Date = d THEN <<frame[Len(frame)]>> ELSE <<>>)

\* the index values of a frame, ascending, each once
RECURSIVE SortedSeq(_)
SortedSeq(S) ==
    IF S = {} THEN <<>>
    ELSE LET m == SetMin(S) IN <<m>> \o SortedSeq(S \ {m})

\* the rows an outer join yields for one index value: every left row with
\* every right row, missing cells on the side that lacks the value
JoinAt(left, right, d, p, joined) ==
    LET l == RowsAt(left, d)
        r == RowsAt(right, d)
        blankL == [Date |-> d, cells |-> [q \in joined |-> MissingPair]]
        ls == IF l = <<>> THEN <<blankL>> ELSE l
        rs == IF r = <<>> THEN <<MissingPair>> ELSE Table([j \in 1..Len(r) |-> r[j].pair])
    IN  Table([n \in 1..(Len(ls) * Len(rs)) |->
            LET a == ((n - 1) \div Len(rs)) + 1
                b == ((n - 1) % Len(rs)) + 1
            IN  [Date |-> d,
                 cells |-> [q \in joined \cup {p} |->
                               IF q = p THEN rs[b] ELSE ls[a].cells[q]]]])

RECURSIVE JoinOver(_, _, _, _, _)
JoinOver(left, right, dates, p, joined) ==
    IF dates = <<>> THEN <<>>
    ELSE JoinAt(left, right, dates[1], p, joined)
         \o JoinOver(left, right, Tail(dates), p, joined)

\* _df.join(_df_pollster, how='outer'): the union of the index values, sorted
OuterJoin(left, right, p, joined) ==
    LET keys == {left[i].Date : i \in 1..Len(left)} \cup {right[i].Date : i \in 1..Len(right)}
    IN  JoinOver(left, right, SortedSeq(keys), p, joined)

\* lines 265-281: the frame of the first pollster, then the others joined on
RECURSIVE JoinPollsters(_, _, _, _)
JoinPollsters(files, names, c, n) ==
    IF n = 1
    THEN LET f == PollsterFrame(files[names[1]], c)
         IN  Table([i \in 1..Len(f) |->
                 [Date |-> f[i].Date, cells |-> [q \in {names[1]} |-> f[i].pair]]])
    ELSE OuterJoin(JoinPollsters(files, names, c, n - 1),
                   PollsterFrame(files[names[n]], c),
                   names[n], {names[i] : i \in 1..(n - 1)})

\* _df.fillna(0)
FillZero(x) == IF IsNa(x) THEN Num(0, 1) ELSE x

\* _df = _df[_df.index.notnull()]
RECURSIVE DropNullIndex(_)
DropNullIndex(frame) ==
    IF frame = <<>> THEN <<>>
    ELSE DropNullIndex(SubSeq(frame, 1, Len(frame) - 1))
         \o (IF frame[Len(frame)].Date # NaT THEN <<frame[Len(frame)]>> ELSE <<>>)

\* a total that takes the Sample column of the first pollster only
TotalSamplesOfFirst(row, names, n) == FillZero(row.cells[names[1]].Sample)

\* total_samples = _df[filter_col].sum(axis=1)
RECURSIVE TotalSamples(_, _, _)
TotalSamples(row, names, n) ==
    IF n = 0 THEN Num(0, 1)
    ELSE FAdd(TotalSamples(row, names, n - 1), FillZero(row.cells[names[n]].Sample))

\* the sum over the pollsters of {candidate}_{pollster} * Sample_{pollster}
RECURSIVE WeightedSum(_, _, _)
WeightedSum(row, names, n) ==
    LET term == FMul(FillZero(row.cells[names[n]].share),
                     FillZero(row.cells[names[n]].Sample))
    IN  IF n = 1 THEN term ELSE FAdd(WeightedSum(row, names, n - 1), term)

\* weighted_average /= total_samples
WeightedAverage(row, names) ==
    FDiv(WeightedSum(row, names, Len(names)), TotalSamples(row, names, Len(names)))

\* str.lower() on the letters the requests of the model use
LowerCase(ch) == IF ch = "A" THEN "a" ELSE IF ch = "L" THEN "l" ELSE ch
StrLower(s) == Table([i \in 1..Len(s) |-> LowerCase(s[i])])

\* the candidates argument: a list of names, a string, or any other object
ListRequest(names) == [kind |-> "list", names |-> names, text |-> <<>>]
TextRequest(text) == [kind |-> "str", names |-> <<>>, text |-> text]
OtherRequest == [kind |-> "other", names |-> <<>>, text |-> <<>>]
NoRequest == [kind |-> "none", names |-> <<>>, text |-> <<>>]
DefaultRequest == TextRequest(<<"a", "l", "l">>)

\* what an error message names: the valid candidates, a file path, a
\* pollster, the stage that should have produced the file
NoMessage == [names |-> <<>>, path |-> "", pollster |-> "", stage |-> ""]
ManifestPath == "pollster_split_list.csv"
ProducingStage == "DataScience.split_pollsters"

\* lines 232-249: the validation of the candidates argument
CandidatesOutcome(req) ==
    IF req.kind = "list"
    THEN IF \E i \in 1..Len(req.names) : req.names[i] \notin Candidates
         THEN "ValueError" ELSE "ok"
    ELSE IF req.kind = "str" /\ StrLower(req.text) = <<"a", "l", "l">> THEN "ok"
    ELSE "ValueError"

\* lines 237-238 enumerate _candidates_all, lines 248-249 do not
CandidatesMessage(req) ==
    IF req.kind = "list" /\ CandidatesOutcome(req) = "ValueError"
    THEN [NoMessage EXCEPT !.names = CandidatesAll]
    ELSE NoMessage

\* _candidates
SelectedCandidates(req) == IF req.kind = "list" THEN req.names ELSE CandidatesAll

\* a call that probes the manifest only and takes every partition as present
AveragesOutcomeManifestOnly(man, files) ==
    IF ~man.present THEN "FileNotFoundError"
    ELSE IF man.names = <<>> THEN "IndexError"
    ELSE "ok"

\* the exception compute_polling_averages(candidates='all') raises, or "ok"
AveragesOutcome(man, files) ==
    IF ~man.present THEN "FileNotFoundError"
    ELSE IF man.names = <<>> THEN "IndexError"
    ELSE IF \E i \in 1..Len(man.names) : ~files[man.names[i]].present
         THEN "FileNotFoundError"
    ELSE "ok"

\* weighted_average.values for one candidate: one value per row of _df
AverageColumn(man, files, c) ==
    LET frame == DropNullIndex(JoinPollsters(files, man.names, c, Len(man.names)))
    IN  Table([i \in 1..Len(frame) |->
                  [Date |-> frame[i].Date, avg |-> WeightedAverage(frame[i], man.names)]])

\* polling_averages: the Date column and one column per requested candidate;
\* an empty frame when no candidate is requested
PollingAveragesFor(man, files, cands) ==
    IF cands = <<>> THEN <<>>
    ELSE LET col == Table([i \in 1..Len(cands) |-> AverageColumn(man, files, cands[i])])
             ref == col[Len(cands)]
             At(c) == col[CHOOSE i \in 1..Len(cands) : cands[i] = c]
         IN  Table([i \in 1..Len(ref) |->
                 [Date |-> ref[i].Date,
                  avg |-> [c \in {cands[j] : j \in 1..Len(cands)} |-> At(c)[i].avg]]])

PollingAverages(man, files) == PollingAveragesFor(man, files, CandidatesAll)

\* rolling(window=7, win_type='gaussian').mean(std=3): the window weights
\* exp(-((k - 3) / 3)^2 / 2) for k = 0..6, in thousandths
RollingWindow == 7
GaussianWeights == <<607, 801, 946, 1000, 946, 801, 607>>

RECURSIVE WindowSum(_, _, _, _)
WindowSum(avgs, c, i, k) ==
    IF k = 0 THEN Num(0, 1)
    ELSE FAdd(WindowSum(avgs, c, i, k - 1),
              FMul(Num(GaussianWeights[k], 1), avgs[i - RollingWindow + k].avg[c]))

RECURSIVE WeightTotal(_)
WeightTotal(k) == IF k = 0 THEN 0 ELSE WeightTotal(k - 1) + GaussianWeights[k]

\* a smoothing that takes the average of the row once seven rows exist
TrendAtLatest(avgs, c, i) == IF i < RollingWindow THEN NaN ELSE avgs[i].avg[c]

\* weekly_average at row i: missing until the window is full and whenever the
\* window holds a missing average
TrendAt(avgs, c, i) ==
    IF i < RollingWindow THEN NaN
    ELSE IF \E k \in 1..RollingWindow : ~IsNum(avgs[i - RollingWindow + k].avg[c]) THEN NaN
    ELSE FDiv(WindowSum(avgs, c, i, RollingWindow), Num(WeightTotal(RollingWindow), 1))

\* polling_trends: the Date column of polling_averages and one column of
\* rolling means per requested candidate
PollingTrends(avgs) ==
    Table([i \in 1..Len(avgs) |->
              [Date |-> avgs[i].Date,
               trend |-> [c \in DOMAIN avgs[i].avg |-> TrendAt(avgs, c, i)]]])

\* dump_results(dfs): df['Date'] (line 354) raises KeyError on the frames of
\* an empty request, which have no column at all
DumpOutcome(req) == IF SelectedCandidates(req) = <<>> THEN "KeyError" ELSE "ok"

NoFinal == [polling_averages |-> [present |-> FALSE, columns |-> <<>>, rows |-> <<>>],
            trends |-> [present |-> FALSE, columns |-> <<>>, rows |-> <<>>]]

\* the keys of a dict filled in this order: each once, where first set
RECURSIVE DictKeys(_)
DictKeys(names) ==
    IF names = <<>> THEN <<>>
    ELSE LET head == DictKeys(SubSeq(names, 1, Len(names) - 1))
             c == names[Len(names)]
         IN  IF \E i \in 1..Len(head) : head[i] = c THEN head ELSE Append(head, c)

\* the columns of polling_averages and of polling_trends (lines 313-319):
\* 'Date', set in the first pass of the loop, then the candidates as
\* requested; no column at all without a candidate
FrameColumns(cands) == IF cands = <<>> THEN <<>> ELSE DictKeys(<<"Date">> \o cands)

\* the candidate names in ascending str order, and the place of a name in it
AlphabeticalNames == <<"Bulstrode", "Casaubon", "Chettam", "Lydgate", "Others", "Vincy">>
NameRank(c) == CHOOSE i \in 1..Len(AlphabeticalNames) : AlphabeticalNames[i] = c

\* the names left in the order given
NamesAsGiven(names) == names

\* sorted(names)
RECURSIVE SortNames(_)
SortNames(names) ==
    IF names = <<>> THEN <<>>
    ELSE LET n == Head(names)
             rest == SortNames(Tail(names))
         IN  SelectSeq(rest, LAMBDA x : NameRank(x) < NameRank(n))
             \o <<n>> \o SelectSeq(rest, LAMBDA x : ~(NameRank(x) < NameRank(n)))

\* lines 357-359: ['Date'] + sorted(df.columns[df.columns != 'Date']), the
\* frame reindexed to these columns
DumpColumns(cols) == <<"Date">> \o SortNames(SelectSeq(cols, LAMBDA c : c # "Date"))

\* lines 352-368: both frames written to the final directory
DumpResults(avgs, trs, cols) ==
    [polling_averages |-> [present |-> TRUE, columns |-> DumpColumns(cols), rows |-> avgs],
     trends |-> [present |-> TRUE, columns |-> DumpColumns(cols), rows |-> trs]]

\* the position in the manifest of the first pollster whose partition file
\* does not exist, 0 when there is none
FirstMissing(man, files) ==
    LET missing == {i \in 1..Len(man.names) : ~files[man.names[i]].present}
    IN  IF missing = {} THEN 0 ELSE SetMin(missing)

\* the exception compute_polling_averages(candidates) raises, or "ok": the
\* argument is validated first; without a candidate no partition is loaded
AveragesOutcomeFor(req, man, files) ==
    IF CandidatesOutcome(req) # "ok" THEN "ValueError"
    ELSE IF man.present /\ SelectedCandidates(req) = <<>> THEN "ok"
    ELSE AveragesOutcome(man, files)

\* lines 89-92 and 107-110: the messages of the two FileNotFoundErrors
AveragesMessage(req, man, files) ==
    IF CandidatesOutcome(req) # "ok" THEN CandidatesMessage(req)
    ELSE IF AveragesOutcomeFor(req, man, files) # "FileNotFoundError" THEN NoMessage
    ELSE IF ~man.present
         THEN [NoMessage EXCEPT !.path = ManifestPath, !.stage = ProducingStage]
    ELSE [NoMessage EXCEPT !.pollster = man.names[FirstMissing(man, files)],
                           !.stage = ProducingStage]

\* the pollsters whose partition the loop over one candidate loads before it
\* ends or raises
LoadedPollsters(man, files) ==
    IF FirstMissing(man, files) = 0 THEN man.names
    ELSE SubSeq(man.names, 1, FirstMissing(man, files) - 1)

RECURSIVE Repeated(_, _)
Repeated(s, n) == IF n = 0 THEN <<>> ELSE s \o Repeated(s, n - 1)

\* a call that loads the manifest before it validates its argument
FilesReadBeforeValidation(req, man, files) ==
    IF ~man.present THEN <<>> ELSE <<ManifestPath>>

\* the files the call reads, in order: the manifest (line 256), then for each
\* candidate the partitions in manifest order (lines 265-273)
FilesRead(req, man, files) ==
    IF CandidatesOutcome(req) # "ok" \/ ~man.present THEN <<>>
    ELSE <<ManifestPath>> \o
         (IF SelectedCandidates(req) = <<>> THEN <<>>
          ELSE IF FirstMissing(man, files) # 0 THEN LoadedPollsters(man, files)
          ELSE Repeated(man.names, Len(SelectedCandidates(req))))

\* lines 272-288: warn() is called inside the loop over pollsters[1:], when
\* the partition frame has fewer than 2 rows
Warned(req, man, files) ==
    IF CandidatesOutcome(req) # "ok" \/ ~man.present \/ SelectedCandidates(req) = <<>>
    THEN {}
    ELSE {LoadedPollsters(man, files)[n] : n \in
             {k \in 2..Len(LoadedPollsters(man, files)) :
                 Len(ReadCsv(files[LoadedPollsters(man, files)[k]])) < 2}}

-----------------------------------------------------------------------------
(* The inputs of the model.                                                *)

MaxRawRows == 3                     \* rows of a raw table
MaxObs == 2                         \* observations of a series to regularise
MaxRows == 3                        \* rows of a cleaned table to split
MaxDays == 8                        \* consecutive days polled by one pollster

Pct(n) == Num(n, 100)

\* raw cells: '500*', '1,000'; '30%', '**', '40%**'; '25%'
RawChettamCells == {<<"3", "0", "%">>, <<"*", "*">>, <<"4", "0", "%", "*", "*">>}
RawOtherCell == <<"2", "5", "%">>
\* a share without its '%', and text that is no number: '25', 'n/a'
RawVincyCells == {<<"2", "5">>, <<"n", "/", "a">>}
RawDates == {<<1, 1, 24>>, <<1, 2, 24>>}

RawRow(d, p, s, ch) ==
    [Date |-> d, Pollster |-> p, Sample |-> s,
     share |-> [c \in Candidates |-> IF c = "Chettam" THEN ch ELSE RawOtherCell]]

\* every date, pollster and Chettam cell with the sample '500*', and one row
\* with the sample '1,000'
RawRows ==
    {RawRow(d, p, <<"5", "0", "0", "*">>, ch) :
        d \in RawDates, p \in PollsterSet, ch \in RawChettamCells}
    \cup {RawRow(<<1, 1, 24>>, "A", <<"1", ",", "0", "0", "0">>, <<"3", "0", "%">>)}
    \cup {[RawRow(<<1, 2, 24>>, "B", <<"5", "0", "0", "*">>, <<"3", "0">>)
               EXCEPT !.share["Vincy"] = cell] : cell \in RawVincyCells}

RawTables == UNION {[1..n -> RawRows] : n \in 1..MaxRawRows}

Day0 == ParseDate(<<1, 1, 24>>)

\* a cleaned row whose only varying candidate column is Chettam
CleanRow(t, p, sample, chettam) ==
    [Date |-> t, Pollster |-> p, Sample |-> sample, Excl |-> "False",
     share |-> [c \in Candidates |->
                  IF c = "Chettam" THEN chettam
                  ELSE IF c = "Bulstrode" THEN Pct(25) ELSE NaN]]

\* the series of one pollster: the days between consecutive rows (0: the same
\* date twice) and the cells of each row
GapDays == {0, 2, 28, 30}
SeriesCells == {<<Num(100, 1), Pct(40)>>, <<Num(100, 1), Pct(50)>>, <<Num(100, 1), NaN>>,
                <<NaN, Pct(40)>>, <<NaN, NaN>>}

RECURSIVE SeriesOfLen(_)
SeriesOfLen(n) ==
    IF n = 1 THEN {<<CleanRow(Day0, "A", v[1], v[2])>> : v \in SeriesCells}
    ELSE {Append(s, CleanRow(s[Len(s)].Date + 24 * g, "A", v[1], v[2])) :
              s \in SeriesOfLen(n - 1), g \in GapDays, v \in SeriesCells}

SeriesInputs == UNION {SeriesOfLen(n) : n \in 1..MaxObs}

\* cleaned tables, sorted by (Pollster, Date) as clean_data leaves them
TableDays == {Day0, Day0 + 24, Day0 + 48}
TableCellsA == {<<Num(100, 1), Pct(40)>>, <<Num(100, 1), NaN>>, <<Num(0, 1), Pct(40)>>}
TableCellsB == {<<Num(50, 1), Pct(60)>>, <<NaN, Pct(60)>>}
TableRows ==
    {CleanRow(t, "A", v[1], v[2]) : t \in TableDays, v \in TableCellsA}
    \cup {CleanRow(t, "B", v[1], v[2]) : t \in {Day0, Day0 + 24}, v \in TableCellsB}

RECURSIVE TablesOfLen(_)
TablesOfLen(n) ==
    IF n = 1 THEN {<<r>> : r \in TableRows}
    ELSE UNION {{Append(s, r) : r \in {x \in TableRows : SortLeq(s[n - 1], x)}} :
                    s \in TablesOfLen(n - 1)}

CleanTables == UNION {TablesOfLen(n) : n \in 1..MaxRows}

\* pollster A on consecutive days, each day with Sample 100 and Chettam 40%
\* or with Sample 0 (which leaves the average of the day undefined)
DailyCells == {<<Num(100, 1), Pct(40)>>, <<Num(0, 1), Pct(50)>>}
DailyTables ==
    {Table([i \in 1..MaxDays |-> CleanRow(Day0 + 24 * (i - 1), "A", f[i][1], f[i][2])]) :
        f \in [1..MaxDays -> DailyCells]}

\* the two-pollster scenario: A on 2024-01-01 and 2024-01-03, B on 2024-01-02
ScenarioTables ==
    {<<CleanRow(Day0, "A", Num(s1, 1), Pct(a1)),
       CleanRow(Day0 + 48, "A", Num(s3, 1), Pct(a3)),
       CleanRow(Day0 + 24, "B", Num(sb, 1), Pct(b))>> :
        s1 \in {100, 120}, a1 \in {40, 44}, s3 \in {200, 240}, a3 \in {50, 52},
        sb \in {50, 70}, b \in {60, 64}}

\* polls of A on one date whose Sample is '500*', missing, or the text 'n/a',
\* and whose Chettam is '30%', '**', the text 'abc', or missing
IncompleteRows ==
    {RawRow(<<1, 1, 24>>, "A", s, ch) :
        s \in {<<"5", "0", "0", "*">>, NaCell, <<"n", "/", "a">>},
        ch \in {<<"3", "0", "%">>, <<"*", "*">>, <<"a", "b", "c">>, NaCell}}
IncompleteTables == UNION {[1..n -> IncompleteRows] : n \in 1..MaxRawRows}

\* the tables the fetch returns: one poll of A; the same with a missing
\* sample; A's poll and its alternate answer, in both orders (the second
\* order fails the assertion of clean_data); a poll of B; a poll whose
\* Pollster cell is missing
FetchRow(p, s, ch) == RawRow(<<1, 1, 24>>, p, s, ch)
FirstFetch == <<FetchRow("A", <<"5", "0", "0", "*">>, <<"3", "0", "%">>)>>
FetchTables ==
    {FirstFetch,
     <<FetchRow("A", NaCell, <<"3", "0", "%">>)>>,
     <<FetchRow("A", <<"5", "0", "0", "*">>, <<"3", "0", "%">>),
       FetchRow("A", <<"5", "0", "0", "*">>, <<"*", "*">>)>>,
     <<FetchRow("A", <<"5", "0", "0", "*">>, <<"*", "*">>),
       FetchRow("A", <<"5", "0", "0", "*">>, <<"3", "0", "%">>)>>,
     <<FetchRow("B", <<"5", "0", "0", "*">>, <<"4", "0", "%", "*", "*">>)>>,
     <<FetchRow(NaS, <<"5", "0", "0", "*">>, <<"3", "0", "%">>)>>}

\* the cleaned datasets of successive runs: up to two rows of A on two days
\* and of B on the first
RerunRows ==
    {CleanRow(Day0, "A", Num(100, 1), Pct(40)), CleanRow(Day0 + 24, "A", Num(100, 1), Pct(40)),
     CleanRow(Day0, "B", Num(50, 1), Pct(60))}
RerunTables ==
    {t \in TablesOfLen(1) \cup TablesOfLen(2) : \A i \in 1..Len(t) : t[i] \in RerunRows}

MaxNameLen == 3                     \* characters of a pollster name
NameChars == {"A", " ", "-"}
NamesOfLen(n) == [1..n -> NameChars]
PollsterNameTexts == UNION {NamesOfLen(n) : n \in 1..MaxNameLen}

MaxCells == 2                       \* cells of a column written and read back
Dtypes == {"float64", "int64", "bool", "object", DatetimeDtype}

\* 0.4, 1.0, 0.25 and NaN; 500 and 1000; a name, the text str() makes of a
\* missing name, the flags and NaN; two timestamps and NaT
CellsOf(dtype) ==
    IF dtype = "float64"
        THEN {FloatCell(Num(2, 5)), FloatCell(Num(1, 1)), FloatCell(Num(1, 4)), MissingCell}
    ELSE IF dtype = "int64" THEN {IntCell(500), IntCell(1000)}
    ELSE IF dtype = "bool" THEN {BoolCell(TRUE), BoolCell(FALSE)}
    ELSE IF dtype = DatetimeDtype THEN {TsCell(Day0), TsCell(Day0 + 36), NaTCell}
    ELSE {StrCell(<<"A">>), StrCell(<<"n", "a", "n">>), BoolCell(TRUE), BoolCell(FALSE),
          MissingCell}
CsvColumns ==
    UNION {{[dtype |-> d, cells |-> cs] : cs \in [1..n -> CellsOf(d)]} :
              n \in 1..MaxCells, d \in Dtypes}

\* the candidates arguments: 'all', 'ALL', 'Chettam' (a string, not a list),
\* lists with and without a name outside the fixed set, the empty list, None
Requests ==
    {DefaultRequest, TextRequest(<<"A", "L", "L">>),
     TextRequest(<<"C", "h", "e", "t", "t", "a", "m">>),
     ListRequest(<<"Chettam">>), ListRequest(<<"Chettam", "Bulstrode">>),
     ListRequest(<<"Vincy", "Chettam", "Bulstrode">>),
     ListRequest(<<"Chettam", "Dorothea">>), ListRequest(<<"chettam">>),
     ListRequest(<<>>), OtherRequest}

\* the cleaned tables of two rows that report every Sample and Chettam share
RequestTables ==
    {t \in TablesOfLen(2) :
        \A i \in 1..2 : t[i].Sample \in {Num(100, 1), Num(50, 1)}
                        /\ IsNum(t[i].share["Chettam"])}

-----------------------------------------------------------------------------
(* The state machines.                                                     *)

NoFiles == [p \in PollsterSet |-> AbsentFile]
NoManifest == [present |-> FALSE, names |-> <<>>]

NoReport == [c \in Candidates |-> 0]
IdleClean ==
    /\ raw = <<>> /\ cleanStatus = "pending" /\ recleanStatus = "pending"
    /\ badlyFormatted = NoReport
IdleRegularise == series = <<>> /\ fine = <<>> /\ regular = <<>> /\ regStatus = PendingStatus
IdlePipeline ==
    /\ manifest = NoManifest /\ partitions = NoFiles /\ written = <<>>
    /\ splitArg = FALSE /\ splitStatus = PendingStatus
    /\ averages = <<>> /\ avgStatus = "pending"
    /\ avgRead = [manifest |-> NoManifest, files |-> NoFiles]
    /\ candidates = NoRequest /\ filesRead = <<>>
    /\ avgMessage = NoMessage /\ warned = {}
    /\ trends = <<>> /\ final = NoFinal /\ dumpStatus = "pending"
    /\ pathArgs = <<>> /\ paths = <<>>

NoInit == [reset |-> FALSE, table |-> <<>>, fetched |-> FALSE, cleaned |-> FALSE,
           status |-> "pending", rawBefore |-> AbsentFile, cleanBefore |-> AbsentFile]
IdleEngineering == rawFile = AbsentFile /\ cleanFile = AbsentFile /\ deInit = NoInit

NoColumn == [dtype |-> "object", cells |-> <<>>]
NoCsv == [dtype |-> "object", lines |-> <<>>]
IdleIO ==
    /\ csvIn = NoColumn /\ csvFile = NoCsv /\ csvOut = NoColumn
    /\ IdleEngineering

\* DataEngineering.clean_data() on the raw table
CleanDataCall ==
    /\ cleanStatus = "pending"
    /\ raw # <<>>
    /\ cleanStatus' = CleanOutcome(raw)
    /\ badlyFormatted' = BadlyFormattedReport(raw)
    /\ data' = IF cleanStatus' = "ok" THEN CleanData(raw) ELSE <<>>
    /\ UNCHANGED <<raw, series, fine, regular, regStatus, datesInterp, manifest,
                   partitions, written, splitArg, splitStatus, averages, avgStatus,
                   avgRead,
                   candidates, filesRead, avgMessage, warned,
                   trends, final, dumpStatus,
                   pathArgs, paths,
                   recleanStatus,
                   csvIn, csvFile, csvOut,
                   rawFile, cleanFile, deInit>>

\* DataEngineering.clean_data() called again on the cleaned table; the
\* exception is raised while the right-hand side of line 144 is evaluated,
\* before any column is assigned
CleanDataAgainCall ==
    /\ cleanStatus = "ok" /\ recleanStatus = "pending"
    /\ recleanStatus' = CleanAgainOutcome(raw, data)
    /\ data' = IF CleanAgainOutcome(raw, data) = "ok" /\ data = <<>>
               THEN CleanData(raw) ELSE data
    /\ UNCHANGED <<raw, cleanStatus, series, fine, regular, regStatus, datesInterp,
                   manifest, partitions, written, splitArg, splitStatus, averages,
                   avgStatus, avgRead, candidates, filesRead, avgMessage, warned,
                   trends, final, dumpStatus, pathArgs, paths,
                   badlyFormatted,
                   csvIn, csvFile, csvOut,
                   rawFile, cleanFile, deInit>>

\* DataScience.regularise_time_series(df) with the default resample_every
RegulariseCall ==
    /\ regStatus = PendingStatus
    /\ series # <<>>
    /\ regStatus' = RegulariseOutcome(series)
    /\ fine' = IF DatesUnique(series) THEN SubGrid(series, datesInterp) ELSE <<>>
    /\ regular' = IF DatesUnique(series)
                  THEN RegulariseTimeSeries(series, ResampleEvery, datesInterp)
                  ELSE <<>>
    /\ UNCHANGED <<raw, data, cleanStatus, series, datesInterp, manifest, partitions,
                   written, splitArg, splitStatus, averages, avgStatus, avgRead,
                   candidates, filesRead, avgMessage, warned,
                   trends, final, dumpStatus,
                   pathArgs, paths,
                   recleanStatus,
                   badlyFormatted,
                   csvIn, csvFile, csvOut,
                   rawFile, cleanFile, deInit>>

\* DataScience.split_pollsters(regularise)
SplitPollstersCall(regularise) ==
    /\ data # <<>>
    /\ LET r == SplitPollsters(data, regularise, datesInterp, partitions)
       IN  /\ manifest' = r.manifest
           /\ partitions' = r.files
           /\ written' = r.written
           /\ splitStatus' = r.status
    /\ splitArg' = regularise
    /\ UNCHANGED <<raw, data, cleanStatus, series, fine, regular, regStatus,
                   datesInterp, averages, avgStatus, avgRead,
                   candidates, filesRead, avgMessage, warned,
                   trends, final, dumpStatus,
                   pathArgs, paths,
                   recleanStatus,
                   badlyFormatted,
                   csvIn, csvFile, csvOut,
                   rawFile, cleanFile, deInit>>

\* DataScience.compute_polling_averages(candidates)
ComputePollingAveragesWith(req) ==
    /\ data # <<>>
    /\ candidates' = req
    /\ avgStatus' = AveragesOutcomeFor(req, manifest, partitions)
    /\ avgMessage' = AveragesMessage(req, manifest, partitions)
    /\ averages' = IF AveragesOutcomeFor(req, manifest, partitions) = "ok"
                   THEN PollingAveragesFor(manifest, partitions, SelectedCandidates(req))
                   ELSE <<>>
    /\ trends' = IF AveragesOutcomeFor(req, manifest, partitions) = "ok"
                 THEN PollingTrends(PollingAveragesFor(manifest, partitions,
                                                       SelectedCandidates(req)))
                 ELSE <<>>
    /\ filesRead' = FilesRead(req, manifest, partitions)
    /\ warned' = Warned(req, manifest, partitions)
    /\ avgRead' = [manifest |-> manifest, files |-> partitions]
    /\ UNCHANGED <<raw, data, cleanStatus, series, fine, regular, regStatus,
                   datesInterp, manifest, partitions, written, splitArg, splitStatus,
                   final, dumpStatus,
                   pathArgs, paths,
                   recleanStatus,
                   badlyFormatted,
                   csvIn, csvFile, csvOut,
                   rawFile, cleanFile, deInit>>

\* DataScience.compute_polling_averages()
ComputePollingAveragesCall == ComputePollingAveragesWith(DefaultRequest)

\* DataScience.dump_results(dfs) on the frames compute_polling_averages returned
DumpResultsCall ==
    /\ avgStatus = "ok"
    /\ dumpStatus' = DumpOutcome(candidates)
    /\ final' = IF DumpOutcome(candidates) = "ok"
                THEN DumpResults(averages, trends,
                                 FrameColumns(SelectedCandidates(candidates)))
                ELSE final
    /\ UNCHANGED <<raw, data, cleanStatus, series, fine, regular, regStatus,
                   datesInterp, manifest, partitions, written, splitArg, splitStatus,
                   averages, avgStatus, avgRead, candidates, filesRead, avgMessage,
                   warned, trends,
                   pathArgs, paths,
                   recleanStatus,
                   badlyFormatted,
                   csvIn, csvFile, csvOut,
                   rawFile, cleanFile, deInit>>

\* DataScience(df, regularise): lines 56-62, self.data = df, then
\* split_pollsters(regularise), compute_polling_averages() and dump_results
\* in turn; an exception ends the constructor at the call that raised it
DataScienceInitCall(df, regularise) ==
    /\ data' = df
    /\ LET r == SplitPollsters(df, regularise, datesInterp, partitions)
       IN  /\ manifest' = r.manifest
           /\ partitions' = r.files
           /\ written' = r.written
           /\ splitStatus' = r.status
    /\ splitArg' = regularise
    /\ IF splitStatus' = OkStatus
       THEN /\ candidates' = DefaultRequest
            /\ avgStatus' = AveragesOutcomeFor(DefaultRequest, manifest', partitions')
            /\ avgMessage' = AveragesMessage(DefaultRequest, manifest', partitions')
            /\ averages' = IF avgStatus' = "ok"
                           THEN PollingAverages(manifest', partitions') ELSE <<>>
            /\ trends' = IF avgStatus' = "ok" THEN PollingTrends(averages') ELSE <<>>
            /\ filesRead' = FilesRead(DefaultRequest, manifest', partitions')
            /\ warned' = Warned(DefaultRequest, manifest', partitions')
            /\ avgRead' = [manifest |-> manifest', files |-> partitions']
       ELSE /\ candidates' = NoRequest /\ avgStatus' = "pending"
            /\ avgMessage' = NoMessage /\ averages' = <<>> /\ trends' = <<>>
            /\ filesRead' = <<>> /\ warned' = {}
            /\ avgRead' = [manifest |-> NoManifest, files |-> NoFiles]
    /\ IF avgStatus' = "ok"
       THEN /\ dumpStatus' = DumpOutcome(DefaultRequest)
            /\ final' = DumpResults(averages', trends', FrameColumns(CandidatesAll))
       ELSE /\ dumpStatus' = "pending" /\ final' = final
    /\ UNCHANGED <<raw, cleanStatus, series, fine, regular, regStatus, datesInterp,
                   pathArgs, paths, recleanStatus, badlyFormatted,
                   csvIn, csvFile, csvOut,
                   rawFile, cleanFile, deInit>>

\* DataEngineering(reset=reset), the network returning table
DataEngineeringInitCall(reset, table) ==
    LET r == EngineeringInit(rawFile, cleanFile, reset, table)
    IN  /\ rawFile' = r.rawFile
        /\ cleanFile' = r.cleanFile
        /\ data' = r.data
        /\ deInit' = [reset |-> reset, table |-> table, fetched |-> r.fetched,
                      cleaned |-> r.cleaned, status |-> r.status,
                      rawBefore |-> rawFile, cleanBefore |-> cleanFile]
        /\ UNCHANGED <<raw, cleanStatus, series, fine, regular, regStatus, datesInterp,
                       manifest, partitions, written, splitArg, splitStatus, averages,
                       avgStatus, avgRead, candidates, filesRead, avgMessage, warned,
                       trends, final, dumpStatus, pathArgs, paths, recleanStatus,
                       badlyFormatted, csvIn, csvFile, csvOut>>

\* DataScience.get_split_file_path on each of the two names
GetSplitFilePathCall ==
    /\ pathArgs # <<>> /\ paths = <<>>
    /\ paths' = <<GetSplitFilePath(SplitBasename, pathArgs[1]),
                  GetSplitFilePath(SplitBasename, pathArgs[2])>>
    /\ UNCHANGED <<raw, data, cleanStatus, series, fine, regular, regStatus,
                   datesInterp, manifest, partitions, written, splitArg, splitStatus,
                   averages, avgStatus, avgRead, candidates, filesRead, avgMessage,
                   warned, trends, final, dumpStatus, pathArgs,
                   recleanStatus,
                   badlyFormatted,
                   csvIn, csvFile, csvOut,
                   rawFile, cleanFile, deInit>>

\* IO.to_csv(df, path) on the column
ToCsvCall ==
    /\ csvIn # NoColumn /\ csvFile = NoCsv
    /\ csvFile' = ColumnToCsv(csvIn)
    /\ UNCHANGED <<raw, data, cleanStatus, series, fine, regular, regStatus,
                   datesInterp, manifest, partitions, written, splitArg, splitStatus,
                   averages, avgStatus, avgRead, candidates, filesRead, avgMessage,
                   warned, trends, final, dumpStatus, pathArgs, paths, recleanStatus,
                   badlyFormatted, csvIn, csvOut,
                   rawFile, cleanFile, deInit>>

\* IO.read_csv(path) on the file written
ReadCsvCall ==
    /\ csvFile # NoCsv /\ csvOut = NoColumn
    /\ csvOut' = ColumnReadCsv(csvFile)
    /\ UNCHANGED <<raw, data, cleanStatus, series, fine, regular, regStatus,
                   datesInterp, manifest, partitions, written, splitArg, splitStatus,
                   averages, avgStatus, avgRead, candidates, filesRead, avgMessage,
                   warned, trends, final, dumpStatus, pathArgs, paths, recleanStatus,
                   badlyFormatted, csvIn, csvFile,
                   rawFile, cleanFile, deInit>>

InitIO ==
    /\ csvIn \in CsvColumns
    /\ csvFile = NoCsv /\ csvOut = NoColumn
    /\ IdleEngineering
    /\ data = <<>> /\ datesInterp = FALSE
    /\ IdleClean /\ IdleRegularise /\ IdlePipeline

NextIO == ToCsvCall \/ ReadCsvCall

\* raw tables with missing and malformed cells
InitIncomplete ==
    /\ IdleIO
    /\ raw \in IncompleteTables
    /\ cleanStatus = "pending" /\ recleanStatus = "pending"
    /\ badlyFormatted = NoReport
    /\ data = <<>>
    /\ datesInterp = FALSE
    /\ IdleRegularise /\ IdlePipeline

InitClean ==
    /\ IdleIO
    /\ raw \in RawTables
    /\ cleanStatus = "pending" /\ recleanStatus = "pending"
    /\ badlyFormatted = NoReport
    /\ data = <<>>
    /\ datesInterp = FALSE
    /\ IdleRegularise /\ IdlePipeline

InitRegularise ==
    /\ IdleIO
    /\ series \in SeriesInputs
    /\ datesInterp \in BOOLEAN
    /\ fine = <<>> /\ regular = <<>> /\ regStatus = PendingStatus
    /\ data = <<>>
    /\ IdleClean /\ IdlePipeline

InitPipeline ==
    /\ IdleIO
    /\ data \in CleanTables
    /\ datesInterp \in BOOLEAN
    /\ IdleClean /\ IdleRegularise /\ IdlePipeline

InitDaily ==
    /\ IdleIO
    /\ data \in DailyTables
    /\ datesInterp = FALSE
    /\ IdleClean /\ IdleRegularise /\ IdlePipeline

InitScenario ==
    /\ IdleIO
    /\ data \in ScenarioTables
    /\ datesInterp \in BOOLEAN
    /\ IdleClean /\ IdleRegularise /\ IdlePipeline

InitRequest ==
    /\ IdleIO
    /\ data \in RequestTables
    /\ datesInterp \in BOOLEAN
    /\ IdleClean /\ IdleRegularise /\ IdlePipeline

\* an empty interim directory, before the first DataScience is constructed
InitRerun ==
    /\ IdleIO
    /\ data = <<>>
    /\ datesInterp \in BOOLEAN
    /\ IdleClean /\ IdleRegularise /\ IdlePipeline

\* the two files as an earlier run left them, or deleted since
InitEngineering ==
    /\ rawFile \in {AbsentFile, RawCsv(FirstFetch)}
    /\ cleanFile \in {AbsentFile, SaveCleanData(CleanData(FirstFetch))}
    /\ deInit = NoInit
    /\ csvIn = NoColumn /\ csvFile = NoCsv /\ csvOut = NoColumn
    /\ data = <<>> /\ datesInterp = FALSE
    /\ IdleClean /\ IdleRegularise /\ IdlePipeline

InitPaths ==
    /\ IdleIO
    /\ pathArgs \in PollsterNameTexts \X PollsterNameTexts
    /\ paths = <<>>
    /\ data = <<>> /\ datesInterp = FALSE
    /\ IdleClean /\ IdleRegularise
    /\ manifest = NoManifest /\ partitions = NoFiles /\ written = <<>>
    /\ splitArg = FALSE /\ splitStatus = PendingStatus
    /\ averages = <<>> /\ avgStatus = "pending"
    /\ avgRead = [manifest |-> NoManifest, files |-> NoFiles]
    /\ candidates = NoRequest /\ filesRead = <<>>
    /\ avgMessage = NoMessage /\ warned = {}
    /\ trends = <<>> /\ final = NoFinal /\ dumpStatus = "pending"

NextClean == CleanDataCall \/ CleanDataAgainCall
NextRegularise == RegulariseCall
NextPipeline ==
    \/ \E regularise \in BOOLEAN : SplitPollstersCall(regularise)
    \/ ComputePollingAveragesCall

NextRerun ==
    \E df \in RerunTables : \E regularise \in BOOLEAN : DataScienceInitCall(df, regularise)

NextEngineering ==
    \E reset \in BOOLEAN : \E table \in FetchTables : DataEngineeringInitCall(reset, table)

NextRequest ==
    \/ \E regularise \in BOOLEAN : SplitPollstersCall(regularise)
    \/ \E req \in Requests : ComputePollingAveragesWith(req)
    \/ DumpResultsCall

Init == InitClean \/ InitRegularise \/ InitPipeline
Next ==
    \/ NextClean \/ RegulariseCall \/ NextPipeline \/ NextRequest
    \/ GetSplitFilePathCall
    \/ NextIO
    \/ NextRerun
    \/ NextEngineering

SpecClean == InitClean /\ [][NextClean]_vars
SpecIncomplete == InitIncomplete /\ [][NextClean]_vars
SpecRegularise == InitRegularise /\ [][NextRegularise]_vars
SpecPipeline == InitPipeline /\ [][NextPipeline]_vars
SpecScenario == InitScenario /\ [][NextPipeline]_vars
SpecDaily == InitDaily /\ [][NextPipeline]_vars
SpecIO == InitIO /\ [][NextIO]_vars
SpecPaths == InitPaths /\ [][GetSplitFilePathCall]_vars
SpecRerun == InitRerun /\ [][NextRerun]_vars
SpecEngineering == InitEngineering /\ [][NextEngineering]_vars
SpecRequest == InitRequest /\ [][NextRequest]_vars
Spec == Init /\ [][Next]_vars

-----------------------------------------------------------------------------
(* Properties of clean_data (SpecClean).                                   *)

Parsed == ParseTable(raw)
RowKey(r) == <<r.Date, r.Pollster, r.Sample>>

\* the pairs of raw rows that share (Date, Pollster, Sample)
CollidingPairs ==
    {pr \in (1..Len(raw)) \X (1..Len(raw)) :
        pr[1] < pr[2] /\ DupKey(Parsed[pr[1]]) = DupKey(Parsed[pr[2]])}

\* ... of which no third row shares the key and exactly one carries '**'
LonePairsOneFlagged ==
    {pr \in CollidingPairs :
        /\ \A k \in 1..Len(raw) : k \notin {pr[1], pr[2]}
                                  => DupKey(Parsed[k]) # DupKey(Parsed[pr[1]])
        /\ Parsed[pr[1]].Alt # Parsed[pr[2]].Alt}

\* C1: when exactly two raw rows share (Date, Pollster, Sample) and exactly one
\* of them carries the '**' marker, the cleaned dataset holds exactly one row
\* for that key, and its Chettam share is that of the non-flagged row.
C1_MergedRowSurvives ==
    cleanStatus = "ok" =>
        \A pr \in LonePairsOneFlagged :
            LET plain == IF Parsed[pr[1]].Alt THEN pr[2] ELSE pr[1]
                rows == {n \in 1..Len(data) : RowKey(data[n]) = DupKey(Parsed[pr[1]])}
            IN  /\ Cardinality(rows) = 1
                /\ \A n \in rows :
                       data[n].share["Chettam"] = Parsed[plain].share["Chettam"]

\* C2: a colliding pair of which neither or both rows carry the marker makes
\* cleaning abort with an AssertionError and yield no dataset; a table whose
\* colliding pairs all have exactly one flagged row never raises it, whichever
\* row of a pair comes first.
C2_FlagParityEnforced ==
    cleanStatus # "pending" =>
        /\ (\E pr \in CollidingPairs : Parsed[pr[1]].Alt = Parsed[pr[2]].Alt)
               => (cleanStatus = "AssertionError" /\ data = <<>>)
        /\ (\A pr \in CollidingPairs : Parsed[pr[1]].Alt # Parsed[pr[2]].Alt)
               => cleanStatus # "AssertionError"

\* C5: whenever clean_data completes, no two rows of the cleaned dataset share
\* the same (Date, Pollster).
C5_DatePollsterUnique ==
    cleanStatus = "ok" =>
        \A m, n \in 1..Len(data) :
            m # n => <<data[m].Date, data[m].Pollster>> # <<data[n].Date, data[n].Pollster>>

-----------------------------------------------------------------------------
(* Properties of compute_polling_averages (SpecPipeline, SpecScenario).    *)

ReadNames == avgRead.manifest.names
ReadRows(p) == avgRead.files[p].rows

\* every partition read holds each date at most once
ReadDatesUnique ==
    \A n \in 1..Len(ReadNames) :
        \A i, j \in 1..Len(ReadRows(ReadNames[n])) :
            i # j => ReadRows(ReadNames[n])[i].Date # ReadRows(ReadNames[n])[j].Date

\* does pollster p report both a Sample and a share of candidate c on date d
Reports(p, c, d) ==
    \E i \in 1..Len(ReadRows(p)) :
        /\ ReadRows(p)[i].Date = d
        /\ IsNum(ReadRows(p)[i].Sample) /\ IsNum(ReadRows(p)[i].share[c])
ReportOf(p, d) == ReadRows(p)[CHOOSE i \in 1..Len(ReadRows(p)) : ReadRows(p)[i].Date = d]

\* sum(share_p * sample_p) and sum(sample_p) over the reporting pollsters
RECURSIVE ReportedWeighted(_, _, _)
ReportedWeighted(n, c, d) ==
    IF n = 0 THEN Num(0, 1)
    ELSE FAdd(ReportedWeighted(n - 1, c, d),
              IF Reports(ReadNames[n], c, d)
              THEN FMul(ReportOf(ReadNames[n], d).share[c], ReportOf(ReadNames[n], d).Sample)
              ELSE Num(0, 1))
RECURSIVE ReportedSamples(_, _, _)
ReportedSamples(n, c, d) ==
    IF n = 0 THEN Num(0, 1)
    ELSE FAdd(ReportedSamples(n - 1, c, d),
              IF Reports(ReadNames[n], c, d)
              THEN ReportOf(ReadNames[n], d).Sample ELSE Num(0, 1))

\* C3: for every candidate and output date the average is
\* sum(share_p * sample_p) / sum(sample_p) over exactly the pollsters with both
\* a Sample and a share for the candidate on that date; a pollster whose share
\* is missing adds nothing to the numerator and nothing to the denominator.
C3_AverageOverReportingPollsters ==
    (avgStatus = "ok" /\ ReadDatesUnique) =>
        \A i \in 1..Len(averages) : \A c \in Candidates :
            LET d == averages[i].Date
                num == ReportedWeighted(Len(ReadNames), c, d)
                den == ReportedSamples(Len(ReadNames), c, d)
            IN  averages[i].avg[c] = (IF den.n = 0 THEN NaN ELSE FDiv(num, den))

\* the averages on screen were computed from the files of a completed
\* split_pollsters(regularise=True) run
AveragedAfterRegularisedSplit ==
    /\ avgStatus = "ok"
    /\ splitStatus = OkStatus /\ splitArg
    /\ avgRead = [manifest |-> manifest, files |-> partitions]

Half(x) == FDiv(x, Num(2, 1))

\* C4: with A polled on 2024-01-01 and 2024-01-03 and B on 2024-01-02, the
\* average of 2024-01-02 after daily regularisation weighs A's interpolated
\* share with A's interpolated sample against B's share and sample; for A =
\* (40%, 100), (50%, 200) and B = (60%, 50) it is 0.4875.
C4_ScenarioAverage ==
    (AveragedAfterRegularisedSplit /\ Len(data) = 3) =>
        LET shareA == Half(FAdd(data[1].share["Chettam"], data[2].share["Chettam"]))
            sampleA == Half(FAdd(data[1].Sample, data[2].Sample))
            shareB == data[3].share["Chettam"]
            sampleB == data[3].Sample
            expected == FDiv(FAdd(FMul(shareA, sampleA), FMul(shareB, sampleB)),
                             FAdd(sampleA, sampleB))
            rows == {i \in 1..Len(averages) : averages[i].Date = Day0 + 24}
        IN  /\ rows # {}
            /\ \A i \in rows : averages[i].avg["Chettam"] = expected
            /\ (data = <<CleanRow(Day0, "A", Num(100, 1), Pct(40)),
                         CleanRow(Day0 + 48, "A", Num(200, 1), Pct(50)),
                         CleanRow(Day0 + 24, "B", Num(50, 1), Pct(60))>>)
                   => \A i \in rows : averages[i].avg["Chettam"] = Num(4875, 10000)

\* dates of the partitions read on which every pollster's Sample is 0 or missing
ReadDates ==
    UNION {{ReadRows(ReadNames[n])[i].Date : i \in 1..Len(ReadRows(ReadNames[n]))} :
              n \in 1..Len(ReadNames)} \ {NaT}
ZeroTotal(d) ==
    \A n \in 1..Len(ReadNames) : \A i \in 1..Len(ReadRows(ReadNames[n])) :
        LET r == ReadRows(ReadNames[n])[i]
        IN  r.Date = d => (IsNa(r.Sample) \/ r.Sample = Num(0, 1))
FilesComplete ==
    /\ avgRead.manifest.present /\ ReadNames # <<>>
    /\ \A n \in 1..Len(ReadNames) : avgRead.files[ReadNames[n]].present

\* C10: compute_polling_averages does not raise on a date whose total sample
\* is zero (every pollster reports a zero or missing Sample): the date is in
\* the output and its weighted average is missing, for every candidate.
C10_ZeroTotalIsMissing ==
    (avgStatus # "pending" /\ FilesComplete) =>
        /\ avgStatus = "ok"
        /\ \A d \in ReadDates :
               ZeroTotal(d) =>
                   /\ \E i \in 1..Len(averages) : averages[i].Date = d
                   /\ \A i \in 1..Len(averages) :
                          averages[i].Date = d =>
                              \A c \in Candidates : IsNa(averages[i].avg[c])

C10_Witness ==
    /\ avgStatus = "ok" /\ Len(ReadNames) = 2
    /\ \E d \in ReadDates :
        /\ ZeroTotal(d)
        /\ \A n \in 1..2 : \E i \in 1..Len(ReadRows(ReadNames[n])) :
               ReadRows(ReadNames[n])[i].Date = d
        /\ \E i \in 1..Len(averages) :
               averages[i].Date = d /\ IsNa(averages[i].avg["Chettam"])

-----------------------------------------------------------------------------
(* Properties of regularise_time_series (SpecRegularise).                  *)

\* the sub-grid positions at which the input series holds a number in column c
NumbersAt(c) ==
    {SubGridPos(series[i].Date, series[1].Date) :
        i \in {j \in 1..Len(series) : IsNum(Col(series[j], c))}}
NumberAt(c, p) ==
    Col(series[CHOOSE i \in 1..Len(series) :
                   SubGridPos(series[i].Date, series[1].Date) = p], c)

\* the value at k of the straight line through (p, vp) and (q, vq)
OnLine(k, p, vp, q, vq) ==
    FAdd(vp, FDiv(FMul(FSub(vq, vp), Num(k - p, 1)), Num(q - p, 1)))

\* after a number of a column, the sub-grid points more than h periods away
\* stay missing, and a gap of at most h periods between two numbers is filled
\* completely with the values on the line between them
FillHorizon(h) ==
    regStatus.type = "ok" =>
        \A c \in NumericColumns : \A k \in 1..Len(fine) :
            LET before == {p \in NumbersAt(c) : p < k}
                after == {q \in NumbersAt(c) : q > k}
            IN  (k \notin NumbersAt(c) /\ before # {}) =>
                    LET p == SetMax(before)
                    IN  /\ (k - p > h) => IsNa(Col(fine[k], c))
                        /\ (after # {} /\ SetMin(after) - p <= h) =>
                               Col(fine[k], c) =
                                   OnLine(k, p, NumberAt(c, p),
                                          SetMin(after), NumberAt(c, SetMin(after)))

\* C6 as stated: after any observation of a numeric column at most 14
\* consecutive points of the 12-hour sub-grid are filled; a gap longer than 14
\* periods leaves every point beyond the 14th missing and a gap of at most 14
\* periods is filled completely with the linearly interpolated values.
C6_FillHorizon14 == FillHorizon(14)

\* C6 amended: the horizon is 14 * 4 = 56 periods of the 12-hour sub-grid
\* (28 days): points more than 56 periods after the last number stay missing
\* and a gap of at most 56 periods is filled completely with the linearly
\* interpolated values.
C6_FillHorizon56 == FillHorizon(14 * 4)

\* a gap of 60 periods: the 56th point after the number is filled, the 57th
\* is not
C6_Witness ==
    /\ regStatus.type = "ok"
    /\ \E c \in NumericColumns : \E k \in 2..Len(fine) :
        /\ 1 \in NumbersAt(c) /\ NumbersAt(c) \cap (2..k) = {}
        /\ k - 1 = 14 * 4
        /\ IsNum(Col(fine[k], c)) /\ Col(fine[k], c) # NumberAt(c, 1)
        /\ k + 1 \in 1..Len(fine) /\ IsNa(Col(fine[k + 1], c))

\* the timestamps at which the input series holds a number in column c
NumberDates(c) == {series[i].Date : i \in {j \in 1..Len(series) : IsNum(Col(series[j], c))}}

\* C7: for each numeric column, a grid point of the returned series holds a
\* filled-in value only if it lies strictly between two non-missing
\* observations of that column: nothing is filled before the first one and
\* nothing after the last one.
C7_FilledOnlyBetweenObservations ==
    regStatus.type = "ok" =>
        \A c \in NumericColumns : \A k \in 1..Len(regular) :
            (regular[k].ts \notin NumberDates(c) /\ IsNum(Col(regular[k], c))) =>
                /\ \E a \in NumberDates(c) : a < regular[k].ts
                /\ \E b \in NumberDates(c) : b > regular[k].ts

\* C8: every row of the returned series that was inserted between observations
\* carries the Pollster and the 'Excludes overseas candidates' flag of the
\* most recent earlier observation; they are never missing.
C8_NonNumericForwardFilled ==
    regStatus.type = "ok" =>
        \A k \in 1..Len(regular) :
            LET earlier == {i \in 1..Len(series) : series[i].Date < regular[k].ts}
            IN  (\A i \in 1..Len(series) : series[i].Date # regular[k].ts) =>
                    /\ earlier # {}
                    /\ regular[k].Pollster = series[SetMax(earlier)].Pollster
                    /\ regular[k].Excl = series[SetMax(earlier)].Excl

-----------------------------------------------------------------------------
(* Properties of split_pollsters (SpecPipeline).                           *)

\* the rows of pollster p in the cleaned data, in order
RowsOf(p) == SelectSeq(data, LAMBDA r : r.Pollster = p)
RepeatsDate(rows) == \E i, j \in 1..Len(rows) : i < j /\ rows[i].Date = rows[j].Date
\* the rows whose Date an earlier row of the series already holds
RepeatedRows(rows) ==
    LET Mark(i) == \E j \in 1..(i - 1) : rows[j].Date = rows[i].Date
        F[i \in 0..Len(rows)] ==
            IF i = 0 THEN <<>>
            ELSE IF Mark(i) THEN Append(F[i - 1], rows[i]) ELSE F[i - 1]
    IN  F[Len(rows)]

\* C9: split_pollsters(regularise=True) stops with a ValueError at the first
\* pollster whose series holds a Date twice; the error lists the duplicated
\* rows; the partitions of the pollsters before it were written, and none is
\* written for that pollster or any after it. Without such a pollster every
\* partition is written.
C9_DuplicateDatesStopSplit ==
    (splitStatus # PendingStatus /\ splitArg) =>
        LET names == manifest.names
            bad == {i \in 1..Len(names) : RepeatsDate(RowsOf(names[i]))}
        IN  IF bad = {}
            THEN splitStatus.type = "ok" /\ written = names
            ELSE /\ splitStatus.type = "ValueError"
                 /\ splitStatus.dups = RepeatedRows(RowsOf(names[SetMin(bad)]))
                 /\ written = SubSeq(names, 1, SetMin(bad) - 1)

\* pollster A was written and the run stopped at B, whose Date repeats
C9_Witness ==
    /\ splitArg /\ splitStatus.type = "ValueError"
    /\ manifest.names = <<"A", "B">> /\ written = <<"A">>
    /\ Len(splitStatus.dups) = 1 /\ splitStatus.dups[1].Pollster = "B"

-----------------------------------------------------------------------------
(* Properties of the candidates argument (SpecRequest).                    *)

SixCandidates == <<"Bulstrode", "Lydgate", "Vincy", "Casaubon", "Chettam", "Others">>
\* the string 'all' in any letter case
IsAll(text) ==
    /\ Len(text) = 3
    /\ text[1] \in {"a", "A"} /\ text[2] \in {"l", "L"} /\ text[3] \in {"l", "L"}
UnknownCandidate ==
    /\ candidates.kind = "list"
    /\ \E i \in 1..Len(candidates.names) :
           \A j \in 1..Len(SixCandidates) : candidates.names[i] # SixCandidates[j]
NeitherListNorAll ==
    /\ candidates.kind \in {"str", "other"}
    /\ ~(candidates.kind = "str" /\ IsAll(candidates.text))

\* C11: compute_polling_averages raises ValueError when the requested list
\* holds a name outside the six candidates, with a message that enumerates the
\* six names, and when the argument is neither a list nor 'all' in any letter
\* case; it has then read neither the manifest nor a partition and produced no
\* averages.
C11_InvalidCandidatesRejected ==
    (UnknownCandidate \/ NeitherListNorAll) =>
        /\ avgStatus = "ValueError"
        /\ UnknownCandidate => avgMessage.names = SixCandidates
        /\ filesRead = <<>>
        /\ averages = <<>>

\* a list with an unknown name is rejected although the manifest and the
\* partitions are on disk
C11_Witness ==
    /\ candidates = ListRequest(<<"Chettam", "Dorothea">>)
    /\ avgStatus = "ValueError" /\ avgMessage.names = SixCandidates
    /\ avgRead.manifest.present
    /\ \A i \in 1..Len(avgRead.manifest.names) :
           avgRead.files[avgRead.manifest.names[i]].present

-----------------------------------------------------------------------------
(* Properties of the files compute_polling_averages needs (SpecRequest).   *)

Called == candidates.kind # "none"
DiskNames == avgRead.manifest.names
MissingPartitions == {i \in 1..Len(DiskNames) : ~avgRead.files[DiskNames[i]].present}
ValidRequest ==
    \/ candidates.kind = "str" /\ IsAll(candidates.text)
    \/ /\ candidates.kind = "list"
       /\ \A i \in 1..Len(candidates.names) :
              \E j \in 1..Len(SixCandidates) : candidates.names[i] = SixCandidates[j]
RequestsSomeCandidate == candidates.kind = "str" \/ candidates.names # <<>>

\* the call failed with a FileNotFoundError that names the missing file (the
\* manifest by its path, a partition by its pollster) and the stage that
\* writes it, and returned no frame that could be written as a final artifact
FailedOnMissingFile ==
    /\ avgStatus = "FileNotFoundError"
    /\ avgMessage.stage = "DataScience.split_pollsters"
    /\ IF ~avgRead.manifest.present
       THEN avgMessage.path = "pollster_split_list.csv"
       ELSE avgMessage.pollster = DiskNames[SetMin(MissingPartitions)]
    /\ averages = <<>> /\ trends = <<>>

\* C12 as stated: whenever compute_polling_averages runs while the manifest,
\* or the partition of a pollster the manifest lists, does not exist, it fails
\* with a FileNotFoundError naming the missing file and the producing stage,
\* and no final artifact is written.
C12_MissingFileFails ==
    (Called /\ (~avgRead.manifest.present \/ MissingPartitions # {}))
        => FailedOnMissingFile

\* C12 amended: the same, for a call whose candidates argument is valid, and,
\* where only a partition is missing, requests at least one candidate.
C12_MissingFileFailsValidRequest ==
    (/\ Called /\ ValidRequest
     /\ \/ ~avgRead.manifest.present
        \/ MissingPartitions # {} /\ RequestsSomeCandidate)
        => FailedOnMissingFile

\* the manifest is on disk and lists A, whose partition was never written
C12_Witness ==
    /\ avgStatus = "FileNotFoundError"
    /\ avgRead.manifest.present /\ 1 \in MissingPartitions
    /\ avgMessage.pollster = "A" /\ candidates = ListRequest(<<"Chettam">>)

-----------------------------------------------------------------------------
(* Properties of the scarce-pollster warning (SpecPipeline).               *)

\* the observations of a pollster: the rows of its partition that hold a Date
\* and a Sample
Observations(p) ==
    {i \in 1..Len(avgRead.files[p].rows) :
        /\ avgRead.files[p].rows[i].Date # NaT
        /\ IsNum(avgRead.files[p].rows[i].Sample)}

\* C13: for every pollster of the manifest, the first one included,
\* compute_polling_averages emits a RuntimeWarning exactly when the pollster
\* has fewer than 2 non-missing observations, and the computation completes.
C13_WarnsEveryScarcePollster ==
    (Called /\ MissingPartitions = {} /\ avgRead.manifest.present /\ DiskNames # <<>>
     /\ ValidRequest /\ RequestsSomeCandidate) =>
        /\ avgStatus = "ok"
        /\ \A i \in 1..Len(DiskNames) :
               (DiskNames[i] \in warned) <=> (Cardinality(Observations(DiskNames[i])) < 2)

-----------------------------------------------------------------------------
(* Properties of get_split_file_path (SpecPaths).                          *)

\* C14: for a fixed split_basename the same pollster name always maps to the
\* same path, and two distinct pollster names map to distinct paths.
C14_PathsCollisionFree ==
    paths # <<>> => ((pathArgs[1] = pathArgs[2]) <=> (paths[1] = paths[2]))

-----------------------------------------------------------------------------
(* The manifest as the only source of the pollster set (SpecPipeline).     *)

DistinctPollsters == {data[i].Pollster : i \in 1..Len(data)}
FirstRowOf(p) == SetMin({i \in 1..Len(data) : data[i].Pollster = p})
ListedOnceInOrder(names) ==
    /\ {names[i] : i \in 1..Len(names)} = DistinctPollsters
    /\ \A i, j \in 1..Len(names) : i < j => FirstRowOf(names[i]) < FirstRowOf(names[j])
IsPrefix(a, b) == Len(a) <= Len(b) /\ SubSeq(b, 1, Len(a)) = a
PartitionReads == IF filesRead = <<>> THEN <<>> ELSE Tail(filesRead)

\* C15: the manifest lists every distinct Pollster of the data exactly once,
\* in the order in which split_pollsters writes the partitions; a call of
\* compute_polling_averages reads the manifest first and then only partitions
\* the manifest lists, in manifest order, and a call that completes has read
\* every listed partition once per candidate.
C15_ManifestDrivesAverages ==
    /\ manifest.present =>
          /\ ListedOnceInOrder(manifest.names)
          /\ IsPrefix(written, manifest.names)
          /\ (splitStatus = OkStatus => written = manifest.names)
          /\ \A i \in 1..Len(written) : partitions[written[i]].present
    /\ filesRead # <<>> =>
          /\ filesRead[1] = ManifestPath
          /\ \A k \in 1..Len(PartitionReads) :
                PartitionReads[k] =
                    avgRead.manifest.names[((k - 1) % Len(avgRead.manifest.names)) + 1]
    /\ (avgStatus = "ok" /\ SelectedCandidates(candidates) # <<>>) =>
          Len(PartitionReads) =
              Len(avgRead.manifest.names) * Len(SelectedCandidates(candidates))

C15_Witness ==
    /\ avgStatus = "ok" /\ splitStatus = OkStatus
    /\ Len(manifest.names) = 2 /\ Len(PartitionReads) = 12
    /\ Len(data) = 3 /\ data[1].Pollster = data[2].Pollster

-----------------------------------------------------------------------------
(* clean_data called twice (SpecClean).                                    *)

\* C16: a second call of clean_data on the table the first call produced
\* completes (and leaves the table as it was).
C16_CleanDataIdempotent ==
    recleanStatus # "pending" => recleanStatus = "ok"

-----------------------------------------------------------------------------
(* The conversion of the share columns (SpecClean).                        *)

\* what the cell of a share column is to become: N/100 for 'N%' and for 'N',
\* missing for anything else ('**' is a footnote marker of Chettam)
DigitsOnly(txt) == txt # <<>> /\ \A k \in 1..Len(txt) : IsDigit(txt[k])
ExpectedShare(cell) ==
    LET txt == StrRemove(cell, <<"*", "*">>)
        n == IF txt # <<>> /\ txt[Len(txt)] = "%" THEN SubSeq(txt, 1, Len(txt) - 1) ELSE txt
    IN  IF DigitsOnly(n) THEN Num(DigitsToInt(n), 100) ELSE NaN
LacksPercent(c) == {i \in 1..Len(raw) : \A k \in 1..Len(raw[i].share[c]) : raw[i].share[c][k] # "%"}
NoAlternateAnswers == \A i \in 1..Len(raw) : ~StrContains(raw[i].share["Chettam"], <<"*", "*">>)

\* C17: clean_data does not raise on a share cell; it reports, per share
\* column, the rows whose cell lacks the '%' as badly formatted; and (when no
\* alternate answer is merged away) every raw row is kept with each share
\* converted to N/100, or to missing when the text is no number.
C17_SharesCoerced ==
    cleanStatus # "pending" =>
        /\ cleanStatus # "ValueError"
        /\ \A c \in Candidates : badlyFormatted[c] = Cardinality(LacksPercent(c))
        /\ (cleanStatus = "ok" /\ NoAlternateAnswers) =>
              /\ Len(data) = Len(raw)
              /\ \A i \in 1..Len(raw) : \E j \in 1..Len(data) :
                    /\ data[j].Date = ParseDate(raw[i].Date)
                    /\ data[j].Pollster = raw[i].Pollster
                    /\ \A c \in Candidates : data[j].share[c] = ExpectedShare(raw[i].share[c])

-----------------------------------------------------------------------------
(* The shape of the cleaned table (SpecClean).                             *)

PollsterBefore(p, q) == PollsterRank(p) < PollsterRank(q)
CleanedColumns == {"Date", "Pollster", "Sample", "Excl", "share"}

-----------------------------------------------------------------------------
(* The round trip through IO.to_csv and IO.read_csv (SpecIO).              *)

\* C19: the column read back from the file IO.to_csv wrote has the dtype
\* and the cells of the column written, also when it is a datetime column
\* and when some or all of its cells are missing.
C19_RoundTripIdentity ==
    csvOut # NoColumn => csvOut = csvIn

-----------------------------------------------------------------------------
(* The date axis of the averages and the trends (SpecPipeline).            *)

DatesOf(table) == [i \in 1..Len(table) |-> table[i].Date]
Ascending(ds) == \A i, j \in 1..Len(ds) : i < j => ds[i] < ds[j]

\* C20: when compute_polling_averages completes, the averages table and the
\* trends table hold exactly one row for every date that occurs in a
\* partition it read, in ascending order and without a repeated date, and
\* the dates are the same for both tables and for every candidate.
C20_OneRowPerDate ==
    (avgStatus = "ok" /\ SelectedCandidates(candidates) # <<>>) =>
        /\ {averages[i].Date : i \in 1..Len(averages)} = ReadDates
        /\ Len(averages) = Cardinality(ReadDates)
        /\ Ascending(DatesOf(averages))
        /\ DatesOf(trends) = DatesOf(averages)
        /\ \A k \in 1..Len(SelectedCandidates(candidates)) :
              DatesOf(AverageColumn(avgRead.manifest, avgRead.files,
                                    SelectedCandidates(candidates)[k]))
                  = DatesOf(averages)

-----------------------------------------------------------------------------
(* Successive runs over one interim directory (SpecRerun).                 *)

ManifestNames == {manifest.names[i] : i \in 1..Len(manifest.names)}
WrittenNames == {written[i] : i \in 1..Len(written)}

\* C21: after any sequence of split_pollsters runs, the partition files
\* present are exactly those of the pollsters the current manifest lists.
C21_PartitionsMatchManifest ==
    manifest.present => \A p \in PollsterSet : partitions[p].present <=> p \in ManifestNames

\* C26: after a run of split_pollsters, completed or aborted, every pollster
\* the manifest names has a partition file and that file was written by the
\* same run.
C26_ManifestNamesWrittenPartitions ==
    splitStatus # PendingStatus =>
        \A p \in ManifestNames : partitions[p].present /\ p \in WrittenNames
-----------------------------------------------------------------------------
(* The constructor of DataEngineering over the two artifacts                *)
(* (SpecEngineering).                                                       *)

\* the constructor ran with both artifacts present and reset=False
RerunOnBoth ==
    /\ deInit # NoInit /\ ~deInit.reset
    /\ deInit.rawBefore.present /\ deInit.cleanBefore.present

\* C22: DataEngineering(reset=True) fetches the table, overwrites the raw
\* artifact with it, runs clean_data and, completing, overwrites the clean
\* artifact with the cleaned table, whatever the two artifacts were; with
\* reset=False and both artifacts present it fetches nothing, cleans
\* nothing, and leaves the contents of the raw artifact and of the clean
\* artifact as they were, at every such run.
C22_ResetRefetchesRerunKeeps ==
    /\ deInit # NoInit /\ deInit.reset =>
          /\ deInit.fetched /\ rawFile = RawCsv(deInit.table)
          /\ deInit.cleaned
          /\ deInit.status = "ok" => cleanFile = ToCsv(CleanData(deInit.table))
    /\ RerunOnBoth =>
          /\ ~deInit.fetched /\ ~deInit.cleaned
          /\ rawFile = deInit.rawBefore
          /\ cleanFile = deInit.cleanBefore

\* the fetched table is one that clean_data accepts, when a table is fetched
FetchCleans == deInit.fetched => CleanOutcome(deInit.table) = "ok"

\* C24: whatever artifacts are present and whatever reset is, when the
\* fetched table is one clean_data accepts the constructor completes, and
\* self.data and the clean artifact hold a cleaned table: the fetched table
\* is never saved uncleaned, and a missing clean artifact alone never makes
\* the constructor fail.
C24_AlwaysLeavesCleanedTable ==
    deInit # NoInit /\ FetchCleans =>
        /\ deInit.status = "ok"
        /\ data # <<>> /\ IsCleaned(data)
        /\ cleanFile.present /\ cleanFile.rows # <<>> /\ IsCleaned(cleanFile.rows)

-----------------------------------------------------------------------------
(* The columns of the final artifacts (SpecRequest).                       *)

Requested == {SelectedCandidates(candidates)[i] : i \in 1..Len(SelectedCandidates(candidates))}
NamesIn(cols) == {cols[i] : i \in 2..Len(cols)}
\* the final artifacts hold the frames of the last compute_polling_averages
FramesDumped ==
    /\ dumpStatus = "ok" /\ avgStatus = "ok" /\ averages # <<>>
    /\ final.polling_averages.rows = averages /\ final.trends.rows = trends
DateThenSorted(cols) ==
    /\ cols # <<>> /\ cols[1] = "Date"
    /\ \A i, j \in 2..Len(cols) : i < j => NameRank(cols[i]) < NameRank(cols[j])

-----------------------------------------------------------------------------
(* The Date column of the regularised partitions (SpecScenario).           *)

\* the rows of the partition of the n-th pollster written, as read back
WrittenRows(n) == ReadCsv(partitions[written[n]])
\* the grid timestamp of the i-th row of a daily series
GridDate(rows, i) == rows[1].Date + (i - 1) * ResampleEvery

\* C25: every row of a partition written with regularise=True, the rows
\* inserted between observations included, carries in Date its own grid
\* timestamp, never a missing value; and the averages computed from these
\* partitions hold a row for each of these rows.
C25_RegularisedRowsCarryDate ==
    /\ (splitStatus = OkStatus /\ splitArg) =>
          \A n \in 1..Len(written) : \A i \in 1..Len(WrittenRows(n)) :
              /\ WrittenRows(n)[i].Date # NaT
              /\ WrittenRows(n)[i].Date = GridDate(WrittenRows(n), i)
    /\ AveragedAfterRegularisedSplit =>
          \A n \in 1..Len(written) : \A i \in 1..Len(WrittenRows(n)) :
              \E j \in 1..Len(averages) : averages[j].Date = GridDate(WrittenRows(n), i)

-----------------------------------------------------------------------------
(* The rows clean_data removes (SpecIncomplete).                           *)

\* the i-th raw row is a row of the cleaned dataset
Kept(i) == \E j \in 1..Len(data) : data[j] = DropAltColumn(Parsed[i])
SharesKey(i, k) == k # i /\ DupKey(Parsed[k]) = DupKey(Parsed[i])

-----------------------------------------------------------------------------
(* The observations in the regularised series (SpecRegularise).            *)

FirstDay == series[1].Date
LastDay == series[Len(series)].Date

\* C28: with the default cadence and observations at midnight, the returned
\* series holds one row for every day from the first to the last
\* observation and no other row, and every observation is the row of its
\* own date, with each of its numbers unchanged.
C28_ObservationsKeptDaily ==
    regStatus.type = "ok" =>
        /\ Len(regular) = ((LastDay - FirstDay) \div ResampleEvery) + 1
        /\ \A k \in 1..Len(regular) : regular[k].ts = FirstDay + (k - 1) * ResampleEvery
        /\ \A i \in 1..Len(series) : \E k \in 1..Len(regular) :
              /\ regular[k].ts = series[i].Date /\ regular[k].Date = series[i].Date
              /\ \A c \in NumericColumns :
                    IsNum(Col(series[i], c)) => Col(regular[k], c) = Col(series[i], c)

\* two observations 28 days apart, the second without a Chettam share: 29
\* rows, the first and the last holding the observations
C28_Witness ==
    /\ regStatus.type = "ok" /\ Len(series) = 2 /\ Len(regular) = 29
    /\ IsNum(series[1].share["Chettam"]) /\ IsNa(series[2].share["Chettam"])
    /\ regular[1].share["Chettam"] = series[1].share["Chettam"]
    /\ regular[29].Sample = series[2].Sample /\ IsNum(series[2].Sample)

-----------------------------------------------------------------------------
(* The smoothed trend (SpecDaily).                                         *)

Defined(x) == IsNum(x)
\* the averages of candidate c at the seven rows that end at row i
WindowDefined(c, i) ==
    \A k \in (i - RollingWindow + 1)..i : Defined(averages[k].avg[c])

\* C29: the trend of a candidate at the i-th output date (counted from 1) is
\* defined exactly when i >= 7 and the averages at the seven dates i-6..i
\* are all defined: it is missing at the first six dates, and a missing
\* average leaves the trend missing at its date and at the six that follow.
C29_TrendNeedsFullWindow ==
    avgStatus = "ok" =>
        /\ Len(trends) = Len(averages)
        /\ \A i \in 1..Len(trends) : \A c \in DOMAIN trends[i].trend :
              /\ Defined(trends[i].trend[c])
                    <=> (i >= RollingWindow /\ WindowDefined(c, i))
              /\ i < RollingWindow => ~Defined(trends[i].trend[c])
              /\ ~Defined(averages[i].avg[c]) =>
                    \A j \in i..(i + RollingWindow - 1) :
                        j <= Len(trends) => ~Defined(trends[j].trend[c])

\* eight dates, the average of the first one missing: the trend is missing
\* at the seventh date and defined at the eighth
C29_Witness ==
    /\ avgStatus = "ok" /\ Len(trends) = 8
    /\ ~Defined(averages[1].avg["Chettam"])
    /\ \A k \in 2..8 : Defined(averages[k].avg["Chettam"])
    /\ ~Defined(trends[7].trend["Chettam"])
    /\ trends[8].trend["Chettam"] = Num(2, 5)

-----------------------------------------------------------------------------
(* The range of the weighted averages (SpecPipeline).                      *)

\* the rows of the partitions read that carry date d
RowsOn(d) ==
    UNION {{ReadRows(ReadNames[n])[i] :
                i \in {j \in 1..Len(ReadRows(ReadNames[n])) : ReadRows(ReadNames[n])[j].Date = d}} :
              n \in 1..Len(ReadNames)}
\* the shares of candidate c reported on date d with a positive Sample
SharesOn(c, d) ==
    {r.share[c] : r \in {x \in RowsOn(d) :
        IsNum(x.Sample) /\ x.Sample.n > 0 /\ IsNum(x.share[c])}}
\* every share read lies in [0, 1] and no Sample read is negative
InputsInRange ==
    \A n \in 1..Len(ReadNames) : \A i \in 1..Len(ReadRows(ReadNames[n])) :
        LET r == ReadRows(ReadNames[n])[i]
        IN  /\ IsNum(r.Sample) => r.Sample.n >= 0
            /\ \A c \in Candidates :
                  IsNum(r.share[c]) => FLeq(Num(0, 1), r.share[c]) /\ FLeq(r.share[c], Num(1, 1))

====
